---- MODULE Spec2Model ----
(***************************************************************************)
(* State-machine model of the drum kit's real-time performance engine:     *)
(* the recorder (toggleRecording + the input listener), the mapping table  *)
(* and its ref, and the take playback scheduler (playBackRecording,        *)
(* stopAllRecordings, deleteRecording) of src/src/components/DrumKit.tsx,  *)
(* driven by the input layer of src/src/hooks/useMidi.ts and the step      *)
(* loop of src/src/components/Sequencer.tsx, and the audio engine of       *)
(* src/unnamed/part_000 (initAudio, loadUserSample, triggerSound).         *)
(*                                                                         *)
(* Times are integers in milliseconds.  Date.now() is the variable now,    *)
(* Tone.Transport.seconds is the variable seconds (kept in ms).            *)
(***************************************************************************)
EXTENDS Integers, Sequences, FiniteSets, Bags, TLC

\* ---------------------------------------------------------------- bounds
MaxNow == 1
MaxTakes == 2
MaxEvents == 2
MaxParts == 2
MaxListeners == 2
MaxLoopSteps == 1
\* Takes recorded before playback is exercised.
PlayTakes == 1
\* Fire-and-forget initAudio() calls followed through their awaits at a
\* time; a call made beyond this number stays at its first await.
MaxInits == 2
\* Tone.Player objects created by loadUserSample.
MaxPlayers == 2
\* MIDI previews started in the sound picker.
MaxPreviews == 2

\* ------------------------------------------------------ program constants
StartLead == 100
STEPS == 16
DefaultTempo == 120
\* ms in a minute over the four sixteenth notes of a beat
SixteenthPerBpm == 15000
\* velocity / 127, its floor 0.1 (in thousandths) and the gain floor 0.001.
MidiScale == 127
VelFloor == 100
GainFloor == 1

\* Velocities are held in thousandths: a MIDI velocity v is v * VelUnit and
\* the step loop's 0.8 is 800.
VelUnit == 1000
SeqVelocity == 800

\* JavaScript's undefined: as an instrument name, and as a number.
Undefined == "undefined"
UndefinedNum == -999

\* Pads the input layer delivers and the editor maps.
Pads == {36, 38}

\* (note, velocity) pairs handed to the listeners by handleMidiMessage.
Inputs == {[note |-> 36, velocity |-> 100 * VelUnit],
           [note |-> 38, velocity |-> 64 * VelUnit]}

\* Instruments and pitches the editor installs in this model.
EditInstruments == {"snare", "custom"}
EditPitches == {0, 2}
EditPads == {36}
EditVolumes == {5}

\* Rows of the step grid and the cells the editor toggles in this model.
DEFAULT_ROWS ==
    << [instrument |-> "kick", pitch |-> UndefinedNum, key |-> "kick"],
       [instrument |-> "snare", pitch |-> UndefinedNum, key |-> "snare"],
       [instrument |-> "hihat_closed", pitch |-> UndefinedNum, key |-> "hihat_closed"],
       [instrument |-> "hihat_open", pitch |-> UndefinedNum, key |-> "hihat_open"],
       [instrument |-> "tom", pitch |-> 3, key |-> "tom"],
       [instrument |-> "tom", pitch |-> -1, key |-> "tom"],
       [instrument |-> "crash", pitch |-> UndefinedNum, key |-> "crash"],
       [instrument |-> "shaker", pitch |-> UndefinedNum, key |-> "hihat_closed"],
       [instrument |-> "clap", pitch |-> UndefinedNum, key |-> "snare"] >>
EditCells == {<<1, 0>>}

\* playingPath = null
NoPath == "null"

SoundMapping(instrument, pitch, volume, pan) ==
    [instrument |-> instrument, pitch |-> pitch, volume |-> volume, pan |-> pan]

\* A mapping table is a function whose domain is the set of mapped pads.
DEFAULT_MAPPING == [n \in {} |-> SoundMapping(Undefined, UndefinedNum, UndefinedNum, UndefinedNum)]

\* Mapping tables a stored preset can hold.
PresetTables ==
    { DEFAULT_MAPPING,
      [n \in {36} |-> SoundMapping("kick", 0, 1, UndefinedNum)] }

VARIABLES
    now,                  \* Date.now()
    isRecording,          \* React state isRecording
    isRecordingRef,       \* isRecordingRef.current
    currentRecordingRef,  \* currentRecordingRef.current
    recordStartTimeRef,   \* recordStartTimeRef.current
    recordings,           \* React state recordings (most recent first)
    mappings,             \* React state mappings
    mappingsRef,          \* mappingsRef.current
    showDebug,            \* React state showDebug
    listenersRef,         \* useMidi listenersRef.current (callback identities)
    nextListener,         \* identity of the next callback the effect creates
    ctxRunning,           \* Tone.context.state = 'running'
    isInitialized,        \* audio module flag isInitialized
    pendingPlays,         \* bag of playBackRecording calls suspended at an await
    parts,                \* every Tone.Part created so far, by identity
    activeRecordingLoops, \* activeRecordingLoops.current : take id -> part
    cleanups,             \* callbacks registered by Transport.scheduleOnce
    transportState,       \* Tone.Transport.state
    seconds,              \* Tone.Transport.seconds, in ms
    seqIsPlaying,         \* Sequencer state isPlaying
    seqGrid,              \* Sequencer seqState.grid, as the set of active cells
    seqRows,              \* Sequencer seqState.rows
    gridLens,             \* seqState.grid[r].length of every grid row
    loopStep,             \* next step index of the running Tone.Sequence
    out,                  \* triggerSound calls made by the last step
    initAtStart,          \* initAudio() calls suspended at await Tone.start()
    initAtReverb,         \* initAudio() calls suspended at await reverb.generate()
    graphs,               \* effects chains (mainGain, distortion, reverb) built
    voiceBuilds,          \* times defaultKit and the synths were constructed
    players,              \* every Tone.Player loadUserSample created, by identity
    customPlayers,        \* customPlayers : pad -> player
    customMidi,           \* customMidi : pad -> imported note pattern
    loads,                \* loadUserSample calls suspended at fetch / player.load
    tempo,                \* Sequencer state tempo
    bpm,                  \* Tone.Transport.bpm.value
    loopId,               \* identity of the effect's current Tone.Sequence, mod 2
    tickInterval,         \* ms from the loop's last tick to its next one
    kit,                  \* defaultKit : one shared Tone.Player per sample voice
    fx,                   \* React state reverbAmt, distAmt, masterVol, swing
    bus,                  \* reverb.wet, distortion.distortion, mainGain.gain, Transport.swing
    pans,                 \* React state pans of the Sequencer
    panners,              \* the panners record: name -> pan of that Tone.Panner
    currentStep,          \* Sequencer state currentStep (the visible pointer)
    isMetronomeOn,        \* React state isMetronomeOn
    metroPending,         \* initAudio().then(..) continuations of the metronome effect not yet run
    metronomeLoop,        \* metronomeLoopRef.current # null
    metroLoops,           \* Tone.Loops of the metronome started and not disposed
    playingPath,          \* SoundPicker state playingPath
    activeMidiSynth,      \* activeMidiSynth.current: a synth of synths, 0 for null
    synths,               \* dispose() calls on every preview PolySynth created
    previews              \* MIDI previews suspended at an await or at their timer

vars == << now, isRecording, isRecordingRef, currentRecordingRef,
           recordStartTimeRef, recordings, mappings, mappingsRef, showDebug,
           listenersRef, nextListener, ctxRunning, isInitialized,
           pendingPlays, parts, activeRecordingLoops, cleanups,
           transportState, seconds, seqIsPlaying, seqGrid, seqRows,
           gridLens, loopStep, out,
           initAtStart, initAtReverb, graphs, voiceBuilds, players,
           customPlayers, customMidi, loads, tempo, bpm, loopId,
           tickInterval, kit, fx, bus, pans, panners, currentStep,
           isMetronomeOn,
           metroPending, metronomeLoop, metroLoops, playingPath,
           activeMidiSynth, synths, previews >>

recorderVars == << isRecording, isRecordingRef, currentRecordingRef,
                   recordStartTimeRef, recordings >>
mappingVars == << mappings, mappingsRef >>
listenerVars == << showDebug, listenersRef, nextListener >>
audioVars == << ctxRunning, isInitialized >>
playVars == << pendingPlays, parts, activeRecordingLoops, cleanups >>
transportVars == << transportState, seconds >>
gridVars == << seqGrid, seqRows, gridLens >>
seqVars == << seqIsPlaying, gridVars, loopStep >>
engineVars == << initAtStart, initAtReverb, graphs, voiceBuilds >>
registryVars == << players, customPlayers, customMidi, loads >>
tempoVars == << tempo, bpm, loopId, tickInterval >>
fxVars == << fx, bus, pans, panners >>
metroVars == << isMetronomeOn, metroPending, metronomeLoop, metroLoops >>
pickerVars == << playingPath, activeMidiSynth, synths, previews >>
mixVars == << kit, fxVars, currentStep, metroVars, pickerVars >>

\* ----------------------------------------------------------------- helpers
Range(s) == {s[i] : i \in 1..Len(s)}

EmptyMap == [k \in {} |-> 0]
MapSet(m, k, v) == [x \in DOMAIN m \cup {k} |-> IF x = k THEN v ELSE m[x]]
MapDelete(m, k) == [x \in DOMAIN m \ {k} |-> m[x]]

Min(S) == CHOOSE x \in S : \A y \in S : x <= y

\* InstrumentType: the cases of triggerSound that play a defaultKit sample,
\* the cases that play a synth, and 'custom'.
SampleVoices ==
    {"kick", "kick_808", "snare", "snare_808", "clap", "hihat_closed",
     "hihat_open"}
SynthVoices ==
    {"rimshot", "tom", "crash", "splash", "china", "ride", "cowbell",
     "shaker", "tambourine", "conga_high", "conga_low"}
InstrumentType == SampleVoices \cup SynthVoices \cup {"custom"}

\* What triggerSound(type, _, {triggerNote}) does in the present engine
\* state: it starts a voice, it returns without a sound, or it throws.
\* defaultKit, midiSynth and the synths are assigned in the last synchronous
\* stretch of initAudio, the one that sets isInitialized; before it they are
\* undefined.  defaultKit.has(..) and midiSynth.triggerAttackRelease(..) are
\* not guarded, the synths are (if (tomSynth) ...).  The kit's buffers are
\* taken as loaded once the kit exists and an imported pattern as holding
\* at least one note.  A player whose start raises (faulty) has the
\* exception caught by the case's try.
TriggerResult(type, triggerNote) ==
    IF type = "custom"
       THEN IF triggerNote = UndefinedNum THEN "silent"
            ELSE IF triggerNote \in DOMAIN customMidi
               THEN (IF isInitialized THEN "voice" ELSE "throws")
            ELSE IF triggerNote \in DOMAIN customPlayers
               THEN (IF players[customPlayers[triggerNote]].loaded
                        THEN "voice" ELSE "silent")
            ELSE "silent"
    ELSE IF type \in SampleVoices
       THEN (IF ~isInitialized THEN "throws"
             ELSE IF kit[type].faulty THEN "silent" ELSE "voice")
    ELSE IF type \in SynthVoices
       THEN (IF isInitialized THEN "voice" ELSE "silent")
    ELSE "silent"

Max(S) == CHOOSE x \in S : \A y \in S : x >= y

\* vel = velocity > 1 ? Math.min(Math.max(velocity / 127, 0.1), 1) : velocity
\* in thousandths, the quotient rounded down.
NormVelocity(velocity) ==
    IF velocity > VelUnit
       THEN Min({Max({velocity \div MidiScale, VelFloor}), VelUnit})
       ELSE velocity

\* volMult = params.volume !== undefined ? params.volume : 1
VolMult(volume) == IF volume = UndefinedNum THEN 1 ELSE volume

\* EffectiveVel as it would be without the floor.
EffectiveVelUnfloored(vel, volMult) == vel * volMult

\* effectiveVel = Math.max(vel * volMult, 0.001)
EffectiveVel(vel, volMult) == Max({vel * volMult, GainFloor})

\* pbRate = params.pitch ? Tone.intervalToFrequencyRatio(params.pitch) : 1,
\* as the interval in semitones (an absent pitch and pitch 0 both give 0).
PbRate(pitch) == IF pitch = UndefinedNum THEN 0 ELSE pitch

\* The pan a voice plays at: triggerSound never reads params.pan, the voice
\* keeps the centre position its output chain was built with.
VoicePan(pan) == 0

\* A triggerSound(type, velocity, params) call as the dispatcher receives it,
\* with what the dispatcher computed from it and did with it.
TriggerCall(src, type, velocity, pitch, triggerNote, volume, pan, time) ==
    [src |-> src, type |-> type, velocity |-> velocity, pitch |-> pitch,
     triggerNote |-> triggerNote, volume |-> volume, pan |-> pan, time |-> time,
     vel |-> NormVelocity(velocity),
     gain |-> EffectiveVel(NormVelocity(velocity), VolMult(volume)),
     rate |-> PbRate(pitch),
     voicePan |-> VoicePan(pan),
     result |-> TriggerResult(type, triggerNote)]

\* initAudio() called k times in one synchronous stretch: each call returns
\* at once when isInitialized is set and otherwise suspends at its
\* await Tone.start().  The new number of calls suspended there.
InitAudioCalls(k) ==
    IF isInitialized THEN initAtStart
    ELSE IF initAtStart + initAtReverb + k <= MaxInits THEN initAtStart + k
    ELSE IF initAtStart + initAtReverb >= MaxInits THEN initAtStart
    ELSE MaxInits - initAtReverb

\* A player of the default kit as new Tone.Players(..) makes it: nothing
\* started, rate 1 (0 semitones), volume 0 dB.  n counts the playbacks
\* started and not stopped, by is the caller whose playback is audible now,
\* turn the caller whose stop-and-start is scheduled ahead, ops the player
\* calls the last trigger made, faulty whether the player's next start
\* will raise.
NewVoice ==
    [n |-> 0, by |-> "none", turn |-> "none", rate |-> 0, gain |-> VelUnit,
     ops |-> << >>, faulty |-> FALSE]
NewKit == [x \in SampleVoices |-> NewVoice]

\* Strike as it would be without the stop of a started player.
StrikeNoStop(v, call) ==
    [v EXCEPT !.rate = call.rate, !.gain = call.gain, !.n = v.n + 1,
              !.by = call.src, !.ops = << "start" >>]

\* One default-kit case of triggerSound on its player: p.playbackRate is
\* assigned at once; inside the try, a started player is stopped at the
\* call's time and then started at it, and p.volume.value is assigned at
\* once; a start that raises leaves the try before the volume is assigned.
\* With a time the stop and start lie ahead and the audible playback goes
\* on until then; without one they take effect now.
Strike(v, call) ==
    LET ops == (IF v.n > 0 THEN << "stop" >> ELSE << >>) \o << "start" >>
        scheduled == call.time # UndefinedNum
    IN  IF v.faulty
           THEN [v EXCEPT !.rate = call.rate, !.n = 0, !.ops = ops,
                          !.by = IF scheduled THEN v.by ELSE "none",
                          !.turn = "none"]
           ELSE [v EXCEPT !.rate = call.rate, !.gain = call.gain, !.n = 1,
                          !.ops = ops,
                          !.by = IF scheduled THEN v.by ELSE call.src,
                          !.turn = IF scheduled THEN call.src ELSE "none"]

\* The kit after the dispatcher calls of one synchronous stretch, in order;
\* a call that threw before reaching its player changes nothing, and a
\* start that raised has raised for every call of the stretch.
RECURSIVE KitAfter(_, _)
KitAfter(k, calls) ==
    IF calls = << >> THEN [x \in DOMAIN k |-> [k[x] EXCEPT !.faulty = FALSE]]
    ELSE LET call == Head(calls)
         IN  IF call.type \in SampleVoices /\ call.result # "throws"
                THEN KitAfter([k EXCEPT ![call.type] = Strike(@, call)],
                              Tail(calls))
                ELSE KitAfter(k, Tail(calls))

\* Effect parameters in hundredths: the sliders' initial values, the bus
\* before any chain exists, and the chain as initAudio constructs it
\* (Gain(0.8), Distortion(0), a Reverb at its default wetness 1).
FxUnit == 100
DefaultFx == [reverb |-> 20, distortion |-> 0, volume |-> 80, swing |-> 0]
NoBus ==
    [reverb |-> UndefinedNum, distortion |-> UndefinedNum,
     volume |-> UndefinedNum, swing |-> 0]
\* The panners toFX creates, each at pan 0, in hundredths.
PannerNames ==
    {"tom", "crash", "splash", "china", "ride", "cowbell", "shaker", "conga"}
NewPanners == [n \in PannerNames |-> 0]

NewChain(b) == [reverb |-> FxUnit, distortion |-> 0, volume |-> 80,
                swing |-> b.swing]

Init ==
    /\ now = 0
    /\ isRecording = FALSE
    /\ isRecordingRef = FALSE
    /\ currentRecordingRef = << >>
    /\ recordStartTimeRef = 0
    /\ recordings = << >>
    /\ mappings = DEFAULT_MAPPING
    /\ mappingsRef = DEFAULT_MAPPING
    /\ showDebug = FALSE
    /\ listenersRef = << 1 >>
    /\ nextListener = 2
    /\ ctxRunning = FALSE
    /\ isInitialized = FALSE
    /\ pendingPlays = EmptyBag
    /\ parts = << >>
    /\ activeRecordingLoops = EmptyMap
    /\ cleanups = {}
    /\ transportState = "stopped"
    /\ seconds = 0
    /\ seqIsPlaying = FALSE
    /\ seqGrid = {}
    /\ seqRows = DEFAULT_ROWS
    /\ gridLens = [r \in 1..Len(DEFAULT_ROWS) |-> STEPS]
    /\ loopStep = 0
    /\ out = << >>
    /\ initAtStart = 0
    /\ initAtReverb = 0
    /\ graphs = 0
    /\ voiceBuilds = 0
    /\ players = << >>
    /\ customPlayers = EmptyMap
    /\ customMidi = EmptyMap
    /\ loads = << >>
    /\ tempo = DefaultTempo
    /\ bpm = DefaultTempo
    /\ loopId = 0
    /\ tickInterval = 0
    /\ kit = NewKit
    /\ fx = DefaultFx
    /\ bus = NoBus
    /\ pans = EmptyMap
    /\ panners = EmptyMap
    /\ currentStep = 0
    /\ isMetronomeOn = FALSE
    /\ metroPending = 0
    /\ metronomeLoop = FALSE
    /\ metroLoops = 0
    /\ playingPath = NoPath
    /\ activeMidiSynth = 0
    /\ synths = << >>
    /\ previews = << >>

\* The wall clock advances.
Tick ==
    /\ now < MaxNow
    /\ now' = now + 1
    /\ out' = << >>
    /\ UNCHANGED << recorderVars, mappingVars, listenerVars, audioVars,
                    playVars, transportVars, seqVars,
                    engineVars, registryVars, tempoVars, mixVars >>

\* ------------------------------------------------------------- the recorder
\* StartRecording as it would be if the idle branch sealed a left-over buffer.
StartRecordingSeals ==
    /\ ~isRecording
    /\ Len(recordings) < MaxTakes
    /\ currentRecordingRef' = << >>
    /\ recordStartTimeRef' = now
    /\ isRecording' = TRUE
    /\ isRecordingRef' = TRUE
    /\ recordings' = IF Len(currentRecordingRef) > 0
                        THEN << [id |-> now, name |-> Len(recordings) + 1,
                                 events |-> currentRecordingRef,
                                 duration |-> now - recordStartTimeRef] >>
                                 \o recordings
                        ELSE recordings

\* toggleRecording, idle branch: start a recording.
StartRecording ==
    /\ ~isRecording
    /\ Len(recordings) < MaxTakes
    /\ currentRecordingRef' = << >>
    /\ recordStartTimeRef' = now
    /\ isRecording' = TRUE
    /\ isRecordingRef' = TRUE
    /\ UNCHANGED recordings

\* The take toggleRecording seals from the buffer.
NewRecording ==
    [id |-> now,
     name |-> Len(recordings) + 1,
     events |-> currentRecordingRef,
     duration |-> now - recordStartTimeRef]

\* StopRecording as it would be if the new take went to the end of the list.
StopRecordingAppends ==
    /\ isRecording
    /\ isRecording' = FALSE
    /\ isRecordingRef' = FALSE
    /\ recordings' = IF Len(currentRecordingRef) > 0
                        THEN Append(recordings, NewRecording)
                        ELSE recordings
    /\ UNCHANGED << currentRecordingRef, recordStartTimeRef >>

\* toggleRecording, recording branch: stop and seal.
StopRecording ==
    /\ isRecording
    /\ isRecording' = FALSE
    /\ isRecordingRef' = FALSE
    /\ recordings' = IF Len(currentRecordingRef) > 0
                        THEN << NewRecording >> \o recordings
                        ELSE recordings
    /\ UNCHANGED << currentRecordingRef, recordStartTimeRef >>

toggleRecording ==
    /\ (StartRecording \/ StopRecording)
    /\ out' = << >>
    /\ UNCHANGED << now, mappingVars, listenerVars, audioVars, playVars,
                    transportVars, seqVars,
                    engineVars, registryVars, tempoVars, mixVars >>

\* ------------------------------------------------------- the input listener
\* RelativeEvent as it would be if the timestamp stayed absolute.
RelativeEventAbsolute(e) ==
    [note |-> e.note, velocity |-> e.velocity, timestamp |-> now]

\* The event the listener records for an input: timestamp relative to start.
RelativeEvent(e) ==
    [note |-> e.note, velocity |-> e.velocity,
     timestamp |-> now - recordStartTimeRef]

\* The dispatcher call the listener makes for an input event.
ListenerTrigger(e) ==
    IF e.note \in DOMAIN mappingsRef
       THEN LET mapping == mappingsRef[e.note]
            IN  TriggerCall("live", mapping.instrument, e.velocity,
                            mapping.pitch, e.note, mapping.volume,
                            mapping.pan, UndefinedNum)
       ELSE TriggerCall("live", "cowbell", e.velocity, 12, UndefinedNum,
                        UndefinedNum, UndefinedNum, UndefinedNum)

\* n copies of x.
Repeat(x, n) == [i \in 1..n |-> x]

\* handleMidiMessage for a Note On with velocity > 0: the registered
\* callbacks run once each, in registration order; a callback whose
\* triggerSound throws ends the forEach.  Each callback calls initAudio()
\* itself and triggerSound calls it again while isInitialized is unset.
MidiMessage(e) ==
    LET n == Len(listenersRef)
        call == ListenerTrigger(e)
        ran == IF call.result = "throws" /\ n > 0 THEN 1 ELSE n
    IN  /\ isRecordingRef => Len(currentRecordingRef) + ran <= MaxEvents
        /\ currentRecordingRef' =
               IF isRecordingRef
                  THEN currentRecordingRef \o Repeat(RelativeEvent(e), ran)
                  ELSE currentRecordingRef
        /\ out' = Repeat(call, ran)
        /\ kit' = KitAfter(kit, out')
        /\ initAtStart' = InitAudioCalls(2 * ran)
        /\ UNCHANGED << now, isRecording, isRecordingRef, recordStartTimeRef,
                        recordings, mappingVars, listenerVars, audioVars,
                        playVars, transportVars, seqVars,
                        initAtReverb, graphs, voiceBuilds, registryVars,
                        tempoVars, fxVars, currentStep, metroVars,
                    pickerVars >>

\* IsNoteOn as it would be without the test of the velocity.
IsNoteOnAnyVelocity(m) == m.command >= 144 /\ m.command <= 159

\* command >= 144 && command <= 159 && velocity > 0
IsNoteOn(m) == m.command >= 144 /\ m.command <= 159 /\ m.velocity > 0

\* The selected input delivers a message [command, note, velocity]: only a
\* Note On with a velocity above 0 reaches the callbacks.
onmidimessage(m) ==
    IF IsNoteOn(m)
       THEN MidiMessage([note |-> m.note, velocity |-> m.velocity * VelUnit])
       ELSE /\ out' = << >>
            /\ UNCHANGED << now, recorderVars, mappingVars, listenerVars,
                            audioVars, playVars, transportVars, seqVars,
                            engineVars, registryVars, tempoVars, mixVars >>

\* addListener's returned remover.
RemoveListener(ls, cb) == SelectSeq(ls, LAMBDA l : l # cb)

\* ToggleShowDebug as it would be if the effect had no cleanup.
ToggleShowDebugLeaks ==
    /\ nextListener <= MaxListeners
    /\ showDebug' = ~showDebug
    /\ listenersRef' = Append(listenersRef, nextListener)
    /\ nextListener' = nextListener + 1
    /\ out' = << >>
    /\ UNCHANGED << now, recorderVars, mappingVars, audioVars, playVars,
                    transportVars, seqVars,
                    engineVars, registryVars, tempoVars, mixVars >>

\* showDebug changes: the listener effect's cleanup removes the callback it
\* registered and the effect registers a fresh one.
ToggleShowDebug ==
    /\ nextListener <= MaxListeners
    /\ showDebug' = ~showDebug
    /\ listenersRef' = Append(RemoveListener(listenersRef, nextListener - 1),
                              nextListener)
    /\ nextListener' = nextListener + 1
    /\ out' = << >>
    /\ UNCHANGED << now, recorderVars, mappingVars, audioVars, playVars,
                    transportVars, seqVars,
                    engineVars, registryVars, tempoVars, mixVars >>

\* ---------------------------------------------------------- the mapping table
\* SyncMappingsRef as it would be if the ref kept the table of the first
\* render.
SyncMappingsRefStale(table) == DEFAULT_MAPPING

\* The sync effect: the ref follows the committed table.
SyncMappingsRef(table) == table

\* An entry built afresh from the editor's two values.
UpdatedEntryFresh(prev, note, instrument, pitch) ==
    SoundMapping(instrument, pitch, UndefinedNum, UndefinedNum)

\* {...prev[note], instrument, pitch}
UpdatedEntry(prev, note, instrument, pitch) ==
    IF note \notin DOMAIN prev
       THEN SoundMapping(instrument, pitch, UndefinedNum, UndefinedNum)
       ELSE [prev[note] EXCEPT !.instrument = instrument, !.pitch = pitch]

updateMapping(note, instrument, pitch) ==
    /\ mappings' = MapSet(mappings, note,
                          UpdatedEntry(mappings, note, instrument, pitch))
    /\ mappingsRef' = SyncMappingsRef(mappings')
    /\ out' = << >>
    /\ UNCHANGED << now, recorderVars, listenerVars, audioVars, playVars,
                    transportVars, seqVars,
                    engineVars, registryVars, tempoVars, mixVars >>

\* {...prev[note], volume: val}
VolumeEntry(prev, note, val) ==
    IF note \notin DOMAIN prev
       THEN SoundMapping(Undefined, UndefinedNum, val, UndefinedNum)
       ELSE [prev[note] EXCEPT !.volume = val]

\* The Pad Volume slider's onChange.
SetPadVolume(note, val) ==
    /\ mappings' = MapSet(mappings, note, VolumeEntry(mappings, note, val))
    /\ mappingsRef' = SyncMappingsRef(mappings')
    /\ out' = << >>
    /\ UNCHANGED << now, recorderVars, listenerVars, audioVars, playVars,
                    transportVars, seqVars,
                    engineVars, registryVars, tempoVars, mixVars >>

loadKit(table) ==
    /\ mappings # table
    /\ mappings' = table
    /\ mappingsRef' = SyncMappingsRef(mappings')
    /\ out' = << >>
    /\ UNCHANGED << now, recorderVars, listenerVars, audioVars, playVars,
                    transportVars, seqVars,
                    engineVars, registryVars, tempoVars, mixVars >>


\* ------------------------------------------------------ the audio context
\* The first click or key press: startAudio's Tone.start() resolves and it
\* calls initAudio().
ToneStarted ==
    /\ ~ctxRunning
    /\ ctxRunning' = TRUE
    /\ initAtStart' = InitAudioCalls(1)
    /\ out' = << >>
    /\ UNCHANGED << now, recorderVars, mappingVars, listenerVars, isInitialized,
                    playVars, transportVars, seqVars,
                    initAtReverb, graphs, voiceBuilds, registryVars,
                    tempoVars, mixVars >>

\* An initAudio() call gets past await Tone.start(): it builds the effects
\* chain and suspends at await reverb.generate().
InitAudioStarted ==
    /\ ctxRunning
    /\ initAtStart > 0
    /\ initAtStart' = initAtStart - 1
    /\ initAtReverb' = initAtReverb + 1
    /\ graphs' = graphs + 1
    /\ bus' = NewChain(bus)
    /\ out' = << >>
    /\ UNCHANGED << now, recorderVars, mappingVars, listenerVars, audioVars,
                    playVars, transportVars, seqVars, voiceBuilds,
                    registryVars, tempoVars, kit, fx, pans, panners,
                    currentStep,
                    metroVars,
                    pickerVars >>

\* An initAudio() call gets past await reverb.generate() and runs to its
\* last line: it constructs midiSynth, defaultKit and the synths and sets
\* isInitialized.
InitAudioDone ==
    /\ initAtReverb > 0
    /\ initAtReverb' = initAtReverb - 1
    /\ voiceBuilds' = voiceBuilds + 1
    /\ kit' = NewKit
    /\ panners' = NewPanners
    /\ isInitialized' = TRUE
    /\ out' = << >>
    /\ UNCHANGED << now, recorderVars, mappingVars, listenerVars, ctxRunning,
                    playVars, transportVars, seqVars, initAtStart, graphs,
                    registryVars, tempoVars, fx, bus, pans, currentStep,
                    metroVars,
                    pickerVars >>

\* -------------------------------------------------------------- panning
\* updatePan(name, value): if (panners[name]) panners[name].pan.value = value
UpdatePan(ps, name, value) ==
    IF name \in DOMAIN ps THEN [ps EXCEPT ![name] = value] ELSE ps

\* The pan slider of a sequencer row with the given key.
handlePanChange(key, value) ==
    /\ pans' = MapSet(pans, key, value)
    /\ panners' = UpdatePan(panners, key, value)
    /\ out' = << >>
    /\ UNCHANGED << now, recorderVars, mappingVars, listenerVars, audioVars,
                    playVars, transportVars, seqVars, engineVars,
                    registryVars, tempoVars, kit, fx, bus, currentStep,
                    metroVars,
                    pickerVars >>

\* --------------------------------------------------------- the metronome
\* The metronome button.  Switching on calls initAudio() and leaves the
\* rest to its then; switching off disposes the loop the ref holds.
ToggleMetronome ==
    /\ isMetronomeOn \/ metroPending + metroLoops < MaxInits
    /\ isMetronomeOn' = ~isMetronomeOn
    /\ IF isMetronomeOn
          THEN /\ metronomeLoop' = FALSE
               /\ metroLoops' = IF metronomeLoop THEN metroLoops - 1
                                                 ELSE metroLoops
               /\ UNCHANGED << metroPending, initAtStart >>
          ELSE /\ metroPending' = metroPending + 1
               /\ initAtStart' = InitAudioCalls(1)
               /\ UNCHANGED << metronomeLoop, metroLoops >>
    /\ out' = << >>
    /\ UNCHANGED << now, recorderVars, mappingVars, listenerVars, audioVars,
                    playVars, transportVars, seqVars, initAtReverb, graphs,
                    voiceBuilds, registryVars, tempoVars, kit, fxVars,
                    currentStep, pickerVars >>

\* The then of the metronome's initAudio() runs, the engine being
\* initialised: the click loop is created, the transport started unless it
\* runs, and the ref set.
MetronomeReady ==
    /\ metroPending > 0
    /\ isInitialized
    /\ metroPending' = metroPending - 1
    /\ transportState' = "started"
    /\ metronomeLoop' = TRUE
    /\ metroLoops' = metroLoops + 1
    /\ out' = << >>
    /\ UNCHANGED << now, recorderVars, mappingVars, listenerVars, audioVars,
                    playVars, seconds, seqVars, engineVars, registryVars,
                    tempoVars, kit, fxVars, currentStep, isMetronomeOn,
                    pickerVars >>

\* ------------------------------------------------------ the effects bus
\* Math.min(Math.max(x, 0), 1)
Clamp01(x) == Min({Max({x, 0}), FxUnit})

\* updateEffects(params) on bus b; a parameter left out is UndefinedNum.
\* The ramp of the gain is taken at its target.
UpdateEffects(b, params) ==
    IF ~isInitialized THEN b
    ELSE [reverb |-> IF params.reverb # UndefinedNum
                        THEN Clamp01(params.reverb) ELSE b.reverb,
          distortion |-> IF params.distortion # UndefinedNum
                            THEN Clamp01(params.distortion) ELSE b.distortion,
          volume |-> IF params.volume # UndefinedNum
                        THEN params.volume ELSE b.volume,
          swing |-> IF params.swing # UndefinedNum
                       THEN params.swing ELSE b.swing]

\* The parameters the two effects pass: DrumKit's the three sliders' values,
\* the Sequencer's the swing.
BusParams(f) ==
    [reverb |-> f.reverb, distortion |-> f.distortion, volume |-> f.volume,
     swing |-> UndefinedNum]
SwingParams(f) ==
    [reverb |-> UndefinedNum, distortion |-> UndefinedNum,
     volume |-> UndefinedNum, swing |-> f.swing]

\* A slider of the effects panel moves: the state is set and the effect
\* that depends on it runs updateEffects.
SetFx(field, val) ==
    /\ fx[field] # val
    /\ fx' = [fx EXCEPT
                ![field] = val]
    /\ bus' = UpdateEffects(bus, IF field = "swing" THEN SwingParams(fx')
                                                     ELSE BusParams(fx'))
    /\ out' = << >>
    /\ UNCHANGED << now, recorderVars, mappingVars, listenerVars, audioVars,
                    playVars, transportVars, seqVars, engineVars,
                    registryVars, tempoVars, kit, pans, panners, currentStep,
                    metroVars,
                    pickerVars >>

setReverbAmt(val) == SetFx("reverb", val)

setDistAmt(val) == SetFx("distortion", val)

setMasterVol(val) == SetFx("volume", val)

setSwing(val) == SetFx("swing", val)

\* ------------------------------------------------------- the default kit
\* The time a scheduled stop-and-start was set for arrives: the playback
\* audible before it stops and the scheduled one becomes the audible one.
VoiceTurns(x) ==
    /\ kit[x].turn # "none"
    /\ kit' = [kit EXCEPT ![x].by = kit[x].turn, ![x].turn = "none"]
    /\ out' = << >>
    /\ UNCHANGED << now, recorderVars, mappingVars, listenerVars, audioVars,
                    playVars, transportVars, seqVars, engineVars,
                    registryVars, tempoVars, fxVars, currentStep, metroVars,
                    pickerVars >>

\* The audible playback of a player runs out.
VoiceEnds(x) ==
    /\ kit[x].by # "none"
    /\ kit[x].turn = "none"
    /\ kit' = [kit EXCEPT ![x].by = "none", ![x].n = 0]
    /\ out' = << >>
    /\ UNCHANGED << now, recorderVars, mappingVars, listenerVars, audioVars,
                    playVars, transportVars, seqVars, engineVars,
                    registryVars, tempoVars, fxVars, currentStep, metroVars,
                    pickerVars >>

\* A player of the kit gets into a condition in which its next start
\* raises (its buffer is not loaded, or the start time is not after the
\* previous one).
PlayerFaults(x) ==
    /\ isInitialized
    /\ ~kit[x].faulty
    /\ kit' = [kit EXCEPT ![x].faulty = TRUE]
    /\ out' = << >>
    /\ UNCHANGED << now, recorderVars, mappingVars, listenerVars, audioVars,
                    playVars, transportVars, seqVars, engineVars,
                    registryVars, tempoVars, fxVars, currentStep, metroVars,
                    pickerVars >>

\* ----------------------------------------------------- the custom registry
\* Files the library and the upload control hand to loadUserSample, by the
\* extension fileUrl.split('.').pop() yields.
Assets ==
    { [name |-> "clap1", ext |-> "wav"],
      [name |-> "groove", ext |-> "mid"],
      [name |-> "patch", ext |-> "prt_omn"] }
LoadPads == {36}

\* new Tone.Player() made by a load for the pad.
NewPlayer(noteId) == [pad |-> noteId, disposed |-> 0, loaded |-> FALSE]

\* player.dispose()
DisposePlayer(ps, k) == [ps EXCEPT ![k].disposed = @ + 1]

\* customPlayers.get(key)?.dispose(); customPlayers.delete(key)
ReleasedPlayers(noteId) ==
    IF noteId \in DOMAIN customPlayers
       THEN DisposePlayer(players, customPlayers[noteId])
       ELSE players

\* loadUserSample up to its first await or its return: the fire-and-forget
\* initAudio(), the release of the pad's present entries, and then by
\* extension nothing (prt_omn), a fetch left in flight (mid), or a new
\* player whose load is left in flight.  player.connect(reverb) throws into
\* the catch while no initAudio call has assigned reverb yet; the player
\* made just before it is then neither loaded, registered nor disposed.
LoadBody(noteId, asset) ==
    /\ Len(loads) < MaxPlayers
    /\ asset.ext \notin {"mid", "prt_omn"} => Len(players) < MaxPlayers
    /\ initAtStart' = InitAudioCalls(1)
    /\ customPlayers' = MapDelete(customPlayers, noteId)
    /\ customMidi' = MapDelete(customMidi, noteId)
    /\ IF asset.ext = "prt_omn"
          THEN /\ players' = ReleasedPlayers(noteId)
               /\ loads' = loads
       ELSE IF asset.ext = "mid"
          THEN /\ players' = ReleasedPlayers(noteId)
               /\ loads' = Append(loads, [pad |-> noteId, asset |-> asset,
                                          player |-> 0])
       ELSE /\ players' = Append(ReleasedPlayers(noteId), NewPlayer(noteId))
            /\ loads' = IF graphs = 0 THEN loads
                        ELSE Append(loads, [pad |-> noteId, asset |-> asset,
                                            player |-> Len(players')])

\* loadUserSample(noteId, fileUrl), as handleFileUpload calls it.
loadUserSample(noteId, asset) ==
    /\ LoadBody(noteId, asset)
    /\ out' = << >>
    /\ UNCHANGED << now, recorderVars, mappingVars, listenerVars, audioVars,
                    playVars, transportVars, seqVars, initAtReverb, graphs,
                    voiceBuilds, tempoVars, mixVars >>

\* s without its i-th element.
RemoveAt(s, i) == SubSeq(s, 1, i - 1) \o SubSeq(s, i + 1, Len(s))

\* The fetch or player.load of an in-flight load resolves: the call runs on
\* to customMidi.set / customPlayers.set and returns.
LoadSucceeds(i) ==
    LET call == loads[i]
    IN  /\ loads' = RemoveAt(loads, i)
        /\ IF call.asset.ext = "mid"
              THEN /\ customMidi' = MapSet(customMidi, call.pad, call.asset)
                   /\ UNCHANGED << players, customPlayers >>
              ELSE /\ players' = [players EXCEPT ![call.player].loaded = TRUE]
                   /\ customPlayers' =
                          MapSet(customPlayers, call.pad, call.player)
                   /\ UNCHANGED customMidi
        /\ out' = << >>
        /\ UNCHANGED << now, recorderVars, mappingVars, listenerVars,
                        audioVars, playVars, transportVars, seqVars,
                        engineVars, tempoVars, mixVars >>

\* The fetch or player.load of an in-flight load rejects: the catch logs and
\* the call returns.
LoadFails(i) ==
    /\ loads' = RemoveAt(loads, i)
    /\ out' = << >>
    /\ UNCHANGED << now, recorderVars, mappingVars, listenerVars, audioVars,
                    playVars, transportVars, seqVars, engineVars, players,
                    customPlayers, customMidi, tempoVars, mixVars >>

\* Entries of the sound library: built-in voices ('std:<type>') and files.
LibraryItems ==
    { [std |-> TRUE, type |-> "snare", asset |-> [name |-> "", ext |-> ""]],
      [std |-> FALSE, type |-> "custom",
       asset |-> [name |-> "clap1", ext |-> "wav"]] }

\* handleLibraryLoad(sample) for the pad selected in the editor.
handleLibraryLoad(note, sample) ==
    IF sample.std
       THEN updateMapping(note, sample.type, 0)
       ELSE /\ LoadBody(note, sample.asset)
            /\ mappings' = MapSet(mappings, note,
                                  UpdatedEntry(mappings, note, "custom", 0))
            /\ mappingsRef' = SyncMappingsRef(mappings')
            /\ out' = << >>
            /\ UNCHANGED << now, recorderVars, listenerVars, audioVars,
                            playVars, transportVars, seqVars, initAtReverb,
                            graphs, voiceBuilds, tempoVars, mixVars >>

\* ------------------------------------------------------------ take playback
\* Dispose as it would be if dispose() left the part running.
DisposeLeavesRunning(ps, p) == ps

\* part.dispose()
Dispose(ps, p) == [ps EXCEPT ![p].disposed = @ + 1]

\* new Tone.Part(callback, partEvents) started at startOffset.
NewPart(rec, startOffset) ==
    [id |-> rec.id, events |-> rec.events, anchor |-> startOffset,
     next |-> 1, disposed |-> 0, trig |-> << >>]

\* The callback Transport.scheduleOnce registers for a part.
NewCleanup(rec, part, startOffset) ==
    [id |-> rec.id, part |-> part, time |-> startOffset + rec.duration]

\* PlayBody as it would be if play queued instead of toggling.
PlayBodyQueues(rec) ==
    LET startOffset == seconds + StartLead
        part == Len(parts) + 1
    IN  /\ transportState' = "started"
        /\ parts' = Append(parts, NewPart(rec, startOffset))
        /\ activeRecordingLoops' = MapSet(activeRecordingLoops, rec.id, part)
        /\ cleanups' = cleanups \cup {NewCleanup(rec, part, startOffset)}

\* playBackRecording after its two awaits: toggle-stop, or start a new part.
PlayBody(rec) ==
    IF rec.id \in DOMAIN activeRecordingLoops
       THEN /\ parts' = Dispose(parts, activeRecordingLoops[rec.id])
            /\ activeRecordingLoops' = MapDelete(activeRecordingLoops, rec.id)
            /\ UNCHANGED << cleanups, transportState >>
       ELSE LET startOffset == seconds + StartLead
                part == Len(parts) + 1
            IN  /\ transportState' = "started"
                /\ parts' = Append(parts, NewPart(rec, startOffset))
                /\ activeRecordingLoops' =
                       MapSet(activeRecordingLoops, rec.id, part)
                /\ cleanups' = cleanups \cup {NewCleanup(rec, part, startOffset)}

\* A click on a take's play button: playBackRecording up to its first await
\* that really suspends (an await of an already settled initAudio() does not
\* let another task in).
playBackRecording(rec) ==
    /\ Len(parts) + BagCardinality(pendingPlays) < MaxParts
    /\ IF ~ctxRunning
          THEN /\ pendingPlays' = pendingPlays (+)
                       SetToBag({[rec |-> rec, stage |-> "toneStart"]})
               /\ UNCHANGED << parts, activeRecordingLoops, cleanups,
                               transportState >>
          ELSE IF ~isInitialized
          THEN /\ pendingPlays' = pendingPlays (+)
                       SetToBag({[rec |-> rec, stage |-> "initAudio"]})
               /\ UNCHANGED << parts, activeRecordingLoops, cleanups,
                               transportState >>
          ELSE /\ PlayBody(rec)
               /\ UNCHANGED pendingPlays
    /\ out' = << >>
    /\ UNCHANGED << now, recorderVars, mappingVars, listenerVars, audioVars,
                    seconds, seqVars,
                    engineVars, registryVars, tempoVars, mixVars >>

\* A suspended playBackRecording call resumes: after Tone.start() it goes
\* on to await initAudio(), after initAudio() it runs the rest of the body.
\* The initAudio() call it awaits entered while isInitialized was unset, so
\* it builds an effects chain and the voices before it returns.
ResumePlay(call) ==
    LET rest == pendingPlays (-) SetToBag({call})
    IN  /\ ctxRunning' = TRUE
        /\ IF call.stage = "toneStart" /\ ~isInitialized
              THEN /\ pendingPlays' = rest (+)
                          SetToBag({[call EXCEPT !.stage = "initAudio"]})
                   /\ UNCHANGED << isInitialized, parts, activeRecordingLoops,
                                   cleanups, transportState >>
              ELSE /\ isInitialized' = TRUE
                   /\ pendingPlays' = rest
                   /\ PlayBody(call.rec)
        /\ graphs' = graphs + (IF call.stage = "initAudio" THEN 1 ELSE 0)
        /\ voiceBuilds' =
               voiceBuilds + (IF call.stage = "initAudio" THEN 1 ELSE 0)
        /\ kit' = IF call.stage = "initAudio" THEN NewKit ELSE kit
        /\ bus' = IF call.stage = "initAudio" THEN NewChain(bus) ELSE bus
        /\ panners' = IF call.stage = "initAudio" THEN NewPanners ELSE panners
        /\ out' = << >>
        /\ UNCHANGED << now, recorderVars, mappingVars, listenerVars, seconds,
                        seqVars, initAtStart, initAtReverb, registryVars,
                        tempoVars, fx, pans, currentStep, metroVars,
                    pickerVars >>

RECURSIVE DisposeAll(_, _)
DisposeAll(ps, S) ==
    IF S = {} THEN ps
    ELSE LET p == CHOOSE x \in S : TRUE
         IN  DisposeAll(Dispose(ps, p), S \ {p})

\* stopAllRecordings as it would be if it only cleared the map.
stopAllRecordingsClearsOnly ==
    /\ activeRecordingLoops' = EmptyMap
    /\ out' = << >>
    /\ UNCHANGED << now, recorderVars, mappingVars, listenerVars, audioVars,
                    pendingPlays, parts, cleanups, transportVars, seqVars,
                    engineVars, registryVars, tempoVars, mixVars >>

stopAllRecordings ==
    /\ parts' = DisposeAll(parts, {activeRecordingLoops[k] :
                                       k \in DOMAIN activeRecordingLoops})
    /\ activeRecordingLoops' = EmptyMap
    /\ out' = << >>
    /\ UNCHANGED << now, recorderVars, mappingVars, listenerVars, audioVars,
                    pendingPlays, cleanups, transportVars, seqVars,
                    engineVars, registryVars, tempoVars, mixVars >>

\* deleteRecording as it would be if it disposed the part and left the
\* map entry in place.
deleteRecordingKeepsEntry(id) ==
    /\ IF id \in DOMAIN activeRecordingLoops
          THEN /\ parts' = Dispose(parts, activeRecordingLoops[id])
               /\ UNCHANGED activeRecordingLoops
          ELSE UNCHANGED << parts, activeRecordingLoops >>
    /\ recordings' = SelectSeq(recordings, LAMBDA r : r.id # id)
    /\ out' = << >>
    /\ UNCHANGED << now, isRecording, isRecordingRef, currentRecordingRef,
                    recordStartTimeRef, mappingVars, listenerVars, audioVars,
                    pendingPlays, cleanups, transportVars, seqVars,
                    engineVars, registryVars, tempoVars, mixVars >>

deleteRecording(id) ==
    /\ IF id \in DOMAIN activeRecordingLoops
          THEN /\ parts' = Dispose(parts, activeRecordingLoops[id])
               /\ activeRecordingLoops' = MapDelete(activeRecordingLoops, id)
          ELSE UNCHANGED << parts, activeRecordingLoops >>
    /\ recordings' = SelectSeq(recordings, LAMBDA r : r.id # id)
    /\ out' = << >>
    /\ UNCHANGED << now, isRecording, isRecordingRef, currentRecordingRef,
                    recordStartTimeRef, mappingVars, listenerVars, audioVars,
                    pendingPlays, cleanups, transportVars, seqVars,
                    engineVars, registryVars, tempoVars, mixVars >>

\* --------------------------------------------------------------- the transport
\* Transport time of the next callback of part p, if it has one left.
HasNext(p) == parts[p].disposed = 0 /\ parts[p].next <= Len(parts[p].events)
NextTime(p) == parts[p].anchor + parts[p].events[parts[p].next].timestamp

\* Times at which something is still scheduled on the transport.
ScheduledTimes ==
    {NextTime(p) : p \in {q \in 1..Len(parts) : HasNext(q)}}
        \cup {c.time : c \in cleanups}

\* The transport runs on to the next scheduled time.
TransportAdvance ==
    /\ transportState = "started"
    /\ ScheduledTimes # {}
    /\ Min(ScheduledTimes) > seconds
    /\ seconds' = Min(ScheduledTimes)
    /\ out' = << >>
    /\ UNCHANGED << now, recorderVars, mappingVars, listenerVars, audioVars,
                    playVars, transportState, seqVars,
                    engineVars, registryVars, tempoVars, mixVars >>

\* The dispatcher call the Tone.Part callback makes for an event, if any.
PartTrigger(value, time) ==
    IF value.note \in DOMAIN mappingsRef
       THEN LET mapping == mappingsRef[value.note]
            IN  << TriggerCall("part", mapping.instrument, value.velocity,
                               mapping.pitch, value.note, mapping.volume,
                               mapping.pan, time) >>
       ELSE << >>

\* The Tone.Part callback of part p runs for its next event.
PartCallback(p) ==
    /\ transportState = "started"
    /\ HasNext(p)
    /\ NextTime(p) <= seconds
    /\ LET calls == PartTrigger(parts[p].events[parts[p].next], NextTime(p))
       IN  /\ parts' = [parts EXCEPT ![p].next = @ + 1,
                                     ![p].trig = @ \o calls]
           /\ out' = calls
           /\ kit' = KitAfter(kit, calls)
           /\ initAtStart' = InitAudioCalls(Len(calls))
    /\ UNCHANGED << now, recorderVars, mappingVars, listenerVars, audioVars,
                    pendingPlays, activeRecordingLoops, cleanups,
                    transportVars, seqVars, initAtReverb, graphs, voiceBuilds,
                    registryVars, tempoVars, fxVars, currentStep, metroVars,
                    pickerVars >>

\* CleanupCallback as it would be without the identity check.
CleanupCallbackUnguarded(c) ==
    /\ transportState = "started"
    /\ c.time <= seconds
    /\ ~(HasNext(c.part) /\ NextTime(c.part) <= c.time)
    /\ cleanups' = cleanups \ {c}
    /\ IF c.id \in DOMAIN activeRecordingLoops
          THEN /\ parts' = Dispose(parts, activeRecordingLoops[c.id])
               /\ activeRecordingLoops' = MapDelete(activeRecordingLoops, c.id)
          ELSE UNCHANGED << parts, activeRecordingLoops >>
    /\ out' = << >>
    /\ UNCHANGED << now, recorderVars, mappingVars, listenerVars, audioVars,
                    pendingPlays, transportVars, seqVars,
                    engineVars, registryVars, tempoVars, mixVars >>

\* CleanupCallback as it would be if the transport ran it ahead of the
\* part's events scheduled for the same time.
CleanupCallbackFirst(c) ==
    /\ transportState = "started"
    /\ c.time <= seconds
    /\ cleanups' = cleanups \ {c}
    /\ IF c.id \in DOMAIN activeRecordingLoops
          /\ activeRecordingLoops[c.id] = c.part
          THEN /\ parts' = Dispose(parts, c.part)
               /\ activeRecordingLoops' = MapDelete(activeRecordingLoops, c.id)
          ELSE UNCHANGED << parts, activeRecordingLoops >>
    /\ out' = << >>
    /\ UNCHANGED << now, recorderVars, mappingVars, listenerVars, audioVars,
                    pendingPlays, transportVars, seqVars,
                    engineVars, registryVars, tempoVars, mixVars >>

\* The scheduleOnce callback c runs; the transport runs callbacks scheduled
\* for the same time in the order they were scheduled, so the part's own
\* events come first.
CleanupCallback(c) ==
    /\ transportState = "started"
    /\ c.time <= seconds
    /\ ~(HasNext(c.part) /\ NextTime(c.part) <= c.time)
    /\ cleanups' = cleanups \ {c}
    /\ IF c.id \in DOMAIN activeRecordingLoops
          /\ activeRecordingLoops[c.id] = c.part
          THEN /\ parts' = Dispose(parts, c.part)
               /\ activeRecordingLoops' = MapDelete(activeRecordingLoops, c.id)
          ELSE UNCHANGED << parts, activeRecordingLoops >>
    /\ out' = << >>
    /\ UNCHANGED << now, recorderVars, mappingVars, listenerVars, audioVars,
                    pendingPlays, transportVars, seqVars,
                    engineVars, registryVars, tempoVars, mixVars >>

\* ---------------------------------------------------------- the step loop
\* Transport.stop(): the clock halts and its position returns to 0; what is
\* scheduled stays scheduled.
TransportStop ==
    /\ transportState' = "stopped"
    /\ seconds' = 0

\* The Tone.Sequence effect, run after isPlaying or seqState changed.
LoopEffect(playing) ==
    IF playing
       THEN /\ transportState' = "started"
            /\ UNCHANGED seconds
       ELSE TransportStop

\* The step pointer after the Tone.Sequence effect ran: its stopping branch
\* ends with setCurrentStep(0).
StepPointerKept(playing, step) == step

StepPointerAfter(playing, step) == IF playing THEN step ELSE 0

\* The play/stop button of the step sequencer.
ToggleSeqPlaying ==
    /\ seqIsPlaying' = ~seqIsPlaying
    /\ loopStep' = 0
    /\ LoopEffect(seqIsPlaying')
    /\ loopId' = 1 - loopId
    /\ currentStep' = StepPointerAfter(seqIsPlaying', currentStep)
    /\ out' = << >>
    /\ UNCHANGED << now, recorderVars, mappingVars, listenerVars, audioVars,
                    playVars, gridVars, engineVars, registryVars, tempo, bpm,
                    tickInterval, kit, fxVars, metroVars,
                    pickerVars >>

toggleStep(rowIndex, colIndex) ==
    LET cell == << rowIndex, colIndex >>
    IN  /\ seqGrid' = IF cell \in seqGrid THEN seqGrid \ {cell}
                                           ELSE seqGrid \cup {cell}
        /\ LoopEffect(seqIsPlaying)
        /\ loopId' = 1 - loopId
        /\ currentStep' = StepPointerAfter(seqIsPlaying, currentStep)
        /\ out' = << >>
        /\ UNCHANGED << now, recorderVars, mappingVars, listenerVars,
                        audioVars, playVars, seqIsPlaying, seqRows,
                        gridLens, loopStep,
                        engineVars, registryVars, tempo, bpm, tickInterval,
                        kit, fxVars, metroVars,
                    pickerVars >>

\* The tempo effect: Tone.Transport.bpm.value = tempo.
SyncBpmStale(t) == DefaultTempo

SyncBpm(t) == t

\* The tempo input's onChange: setTempo(Number(e.target.value)).  Only the
\* tempo effect depends on tempo; the Tone.Sequence effect does not run.
setTempo(t) ==
    /\ tempo' = t
    /\ bpm' = SyncBpm(t)
    /\ out' = << >>
    /\ UNCHANGED << now, recorderVars, mappingVars, listenerVars, audioVars,
                    playVars, transportVars, seqVars, engineVars,
                    registryVars, loopId, tickInterval, mixVars >>

\* The dispatcher calls the Tone.Sequence callback makes at a step, in row
\* order; a call that throws ends the rows.forEach.
RECURSIVE LoopTriggers(_, _)
LoopTriggers(rowIndex, step) ==
    IF rowIndex > Len(seqRows) THEN << >>
    ELSE LET row == seqRows[rowIndex]
             call == TriggerCall("loop", row.instrument, SeqVelocity,
                                 row.pitch, UndefinedNum, UndefinedNum,
                                 UndefinedNum, UndefinedNum)
         IN  IF << rowIndex, step >> \in seqGrid
                THEN IF call.result = "throws" THEN << call >>
                     ELSE << call >> \o LoopTriggers(rowIndex + 1, step)
                ELSE LoopTriggers(rowIndex + 1, step)

\* The Tone.Sequence callback runs for the loop's next step; the step after
\* it is a sixteenth note away at the transport's present bpm.
LoopCallback ==
    /\ seqIsPlaying
    /\ transportState = "started"
    /\ out' = LoopTriggers(1, loopStep)
    /\ loopStep' = (loopStep + 1) % STEPS
    /\ currentStep' = loopStep
    /\ kit' = KitAfter(kit, out')
    /\ tickInterval' = SixteenthPerBpm \div bpm
    /\ initAtStart' = InitAudioCalls(Len(out'))
    /\ UNCHANGED << now, recorderVars, mappingVars, listenerVars, audioVars,
                    playVars, transportVars, seqIsPlaying, gridVars,
                    initAtReverb, graphs, voiceBuilds, registryVars, tempo,
                    bpm, loopId, fxVars, metroVars,
                    pickerVars >>

\* ------------------------------------------------------------ specifications
\* Recorder, input layer and listener registration.
NextRec ==
    \/ Tick
    \/ toggleRecording
    \/ \E e \in Inputs : MidiMessage(e)

SpecRec == Init /\ [][NextRec]_vars

\* Take playback: single-hit takes are recorded first, then played, stopped
\* and deleted in every interleaving with the audio start-up and the
\* transport.
PlayInputs == {[note |-> 36, velocity |-> 100 * VelUnit]}

NoPlayYet == parts = << >> /\ pendingPlays = EmptyBag

NextPlay ==
    \/ NoPlayYet /\ isRecording /\ currentRecordingRef = << >> /\ Tick
    \/ /\ NoPlayYet
       /\ Len(recordings) + (IF isRecording THEN 0 ELSE 1) <= PlayTakes
       /\ toggleRecording
    \/ \E e \in PlayInputs :
          /\ NoPlayYet
          /\ isRecording
          /\ currentRecordingRef = << >>
          /\ MidiMessage(e)
    \/ ToneStarted
    \/ \E i \in 1..Len(recordings) :
          ~isRecording /\ playBackRecording(recordings[i])
    \/ \E call \in BagToSet(pendingPlays) : ResumePlay(call)
    \/ stopAllRecordings
    \/ \E i \in 1..Len(recordings) : deleteRecording(recordings[i].id)
    \/ TransportAdvance
    \/ \E p \in 1..Len(parts) : PartCallback(p)
    \/ \E c \in cleanups : CleanupCallback(c)

SpecPlay == Init /\ [][NextPlay]_vars

\* Replay under mapping edits: one single-hit take is recorded first; then
\* pad 36 is mapped and remapped and the take is played, in every
\* interleaving with the audio start-up and the transport.
NextReplay ==
    \/ NoPlayYet /\ isRecording /\ Tick
    \/ NoPlayYet /\ recordings = << >> /\ toggleRecording
    \/ \E e \in Inputs :
          /\ NoPlayYet
          /\ currentRecordingRef = << >>
          /\ MidiMessage(e)
    \/ \E n \in EditPads, i \in EditInstruments, p \in EditPitches :
          updateMapping(n, i, p)
    \/ \E i \in 1..Len(recordings) :
          pendingPlays = EmptyBag /\ playBackRecording(recordings[i])
    \/ \E call \in BagToSet(pendingPlays) : ResumePlay(call)
    \/ TransportAdvance
    \/ \E p \in 1..Len(parts) : PartCallback(p)
    \/ \E c \in cleanups : CleanupCallback(c)

SpecReplay == Init /\ [][NextReplay]_vars

\* Recording while a take plays and the step loop runs: a kit is loaded and
\* a single-hit take recorded; then the recorder runs again while the mapper
\* is opened and closed, the take is played and the step loop runs.
NextInput ==
    \/ NoPlayYet /\ recordings # << >> /\ Tick
    \/ NoPlayYet /\ Len(recordings) <= 1 /\ toggleRecording
    \/ \E e \in Inputs :
          /\ isRecording
          /\ recordings = << >> => currentRecordingRef = << >>
          /\ MidiMessage(e)
    \/ isRecording /\ recordings # << >> /\ ToggleShowDebug
    \/ \E t \in PresetTables :
          mappings = DEFAULT_MAPPING /\ recordings = << >> /\ loadKit(t)
    \/ \E i \in 1..Len(recordings) :
          /\ isRecording
          /\ NoPlayYet
          /\ playBackRecording(recordings[i])
    \/ \E call \in BagToSet(pendingPlays) : ResumePlay(call)
    \/ TransportAdvance
    \/ \E p \in 1..Len(parts) : PartCallback(p)
    \/ \E c \in cleanups : CleanupCallback(c)
    \/ NoPlayYet /\ isRecording /\ recordings # << >> /\ ToggleSeqPlaying
    \/ \E cell \in EditCells :
          /\ NoPlayYet /\ isRecording /\ recordings # << >>
          /\ seqGrid = {}
          /\ toggleStep(cell[1], cell[2])
    \/ loopStep < MaxLoopSteps /\ LoopCallback

SpecInput == Init /\ [][NextInput]_vars

\* The audio engine: live hits on a mapped and on an unmapped pad in every
\* interleaving with the audio start-up.
EngineTables ==
    { DEFAULT_MAPPING,
      [n \in {36} |-> SoundMapping("kick", 0, 1, UndefinedNum)],
      [n \in {36} |-> SoundMapping("tom", 0, 1, UndefinedNum)] }

NextEngine ==
    \/ ToneStarted
    \/ InitAudioStarted
    \/ InitAudioDone
    \/ \E e \in Inputs : MidiMessage(e)
    \/ \E t \in EngineTables : loadKit(t)
    \/ ToggleShowDebug

SpecEngine == Init /\ [][NextEngine]_vars

\* The custom registry: loads for one pad in every interleaving with each
\* other, with their completions and with the audio start-up.
NextLoad ==
    \/ ToneStarted
    \/ InitAudioStarted
    \/ InitAudioDone
    \/ \E n \in LoadPads, a \in Assets : loadUserSample(n, a)
    \/ \E i \in 1..Len(loads) : LoadSucceeds(i)
    \/ \E i \in 1..Len(loads) : LoadFails(i)

SpecLoad == Init /\ [][NextLoad]_vars

\* The mapper: every operation of the editor on the mapping table.
NextMap ==
    \/ \E n \in EditPads, i \in EditInstruments, p \in EditPitches :
          updateMapping(n, i, p)
    \/ \E n \in EditPads, v \in EditVolumes : SetPadVolume(n, v)
    \/ \E t \in PresetTables : loadKit(t)
    \/ \E n \in EditPads, item \in LibraryItems : handleLibraryLoad(n, item)
    \/ \E i \in 1..Len(loads) : LoadSucceeds(i)
    \/ \E i \in 1..Len(loads) : LoadFails(i)
    \/ ToneStarted
    \/ players = << >> /\ InitAudioStarted

SpecMap == Init /\ [][NextMap]_vars

\* Stop All: one single-hit take on a mapped or an unmapped pad is recorded,
\* then played and stopped in every interleaving with the audio start-up and
\* the transport.  A take is only started while it is not playing.
NextStop ==
    \/ NoPlayYet /\ isRecording /\ currentRecordingRef = << >> /\ Tick
    \/ NoPlayYet /\ recordings = << >> /\ toggleRecording
    \/ \E e \in PlayInputs :
          /\ NoPlayYet
          /\ isRecording
          /\ currentRecordingRef = << >>
          /\ MidiMessage(e)
    \/ \E t \in PresetTables :
          recordings = << >> /\ ~isRecording /\ loadKit(t)
    \/ \E i \in 1..Len(recordings) :
          /\ ~isRecording
          /\ recordings[i].id \notin DOMAIN activeRecordingLoops
          /\ playBackRecording(recordings[i])
    \/ \E call \in BagToSet(pendingPlays) : ResumePlay(call)
    \/ stopAllRecordings
    \/ TransportAdvance
    \/ \E p \in 1..Len(parts) : PartCallback(p)
    \/ \E c \in cleanups : CleanupCallback(c)

SpecStop == Init /\ [][NextStop]_vars

\* The step sequencer: two cells of step 0 (kick row, first tom row) are
\* edited, the loop is started and stopped, runs through its 16 steps and
\* has its tempo changed, in every interleaving with the audio start-up.
\* The transport ticks once the audio context runs.
SeqCells == {<<1, 0>>, <<5, 0>>}
Tempos == {100, 120, 150}

NextSeq ==
    \/ ToneStarted
    \/ InitAudioStarted
    \/ InitAudioDone
    \/ ToggleSeqPlaying
    \/ \E cell \in SeqCells : toggleStep(cell[1], cell[2])
    \/ \E t \in Tempos : setTempo(t)
    \/ ctxRunning /\ LoopCallback

SpecSeq == Init /\ [][NextSeq]_vars

\* Velocities: a hit of every MIDI velocity 1..127 on an unmapped pad, and
\* the loop's fixed 0.8, reach the dispatcher.
VelInputs == {[note |-> 36, velocity |-> v * VelUnit] : v \in 1..MidiScale}

NextVel ==
    \/ \E e \in VelInputs : MidiMessage(e)
    \/ ToneStarted
    \/ ToggleSeqPlaying
    \/ \E cell \in SeqCells : toggleStep(cell[1], cell[2])
    \/ ctxRunning /\ loopStep < MaxLoopSteps /\ LoopCallback

SpecVel == Init /\ [][NextVel]_vars

\* Trigger parameters: presets whose entry for pad 36 carries out-of-range
\* pitch, volume and pan are loaded and the pad is hit at the lowest, a
\* middle and the highest velocity, before and after the audio start-up.
ParamTables ==
    { [n \in {36} |-> SoundMapping("kick", pch, vol, pn)] :
          pch \in {-40, 40}, vol \in {-1, 0, 5}, pn \in {-3, 3} }
ParamInputs ==
    {[note |-> 36, velocity |-> v * VelUnit] : v \in {1, 64, MidiScale}}

NextParams ==
    \/ \E t \in ParamTables : loadKit(t)
    \/ \E e \in ParamInputs : MidiMessage(e)
    \/ ToneStarted
    \/ InitAudioStarted
    \/ InitAudioDone

SpecParams == Init /\ [][NextParams]_vars

\* The kit's voices: one take of a single kick hit is recorded and played
\* while the pad is also hit live at two velocities, the player's
\* playbacks turning over, running out and failing to start in between.
VoiceTables == {[n \in {36} |-> SoundMapping("kick", 0, 1, UndefinedNum)]}
VoiceInputs == {[note |-> 36, velocity |-> 100 * VelUnit],
                [note |-> 36, velocity |-> 64 * VelUnit]}
KitPlayers == {"kick"}

NextVoice ==
    \/ \E t \in VoiceTables :
          recordings = << >> /\ ~isRecording /\ loadKit(t)
    \/ NoPlayYet /\ recordings = << >> /\ mappings # DEFAULT_MAPPING
          /\ toggleRecording
    \/ \E e \in VoiceInputs :
          /\ mappings # DEFAULT_MAPPING
          /\ isRecording => (currentRecordingRef = << >> /\ e.velocity = 100 * VelUnit)
          /\ MidiMessage(e)
    \/ \E i \in 1..Len(recordings) :
          /\ ~isRecording
          /\ recordings[i].id \notin DOMAIN activeRecordingLoops
          /\ playBackRecording(recordings[i])
    \/ \E call \in BagToSet(pendingPlays) : ResumePlay(call)
    \/ TransportAdvance
    \/ \E p \in 1..Len(parts) : PartCallback(p)
    \/ \E c \in cleanups : CleanupCallback(c)
    \/ \E x \in KitPlayers : VoiceTurns(x)
    \/ \E x \in KitPlayers : VoiceEnds(x)
    \/ \E x \in KitPlayers : PlayerFaults(x)

SpecVoice == Init /\ [][NextVoice]_vars

\* Mapping edits against callbacks that read the table: one single-hit take
\* is recorded and played while pad 36 is remapped, its volume set and kits
\* loaded, with live hits in between.
NextSwap ==
    \/ NoPlayYet /\ recordings = << >> /\ toggleRecording
    \/ \E e \in Inputs :
          /\ NoPlayYet
          /\ recordings = << >> => isRecording /\ currentRecordingRef = << >>
          /\ MidiMessage(e)
    \/ \E n \in EditPads, i \in EditInstruments, p \in EditPitches :
          ~isRecording /\ updateMapping(n, i, p)
    \/ \E n \in EditPads, v \in EditVolumes :
          ~isRecording /\ SetPadVolume(n, v)
    \/ \E t \in PresetTables : recordings = << >> /\ ~isRecording /\ loadKit(t)
    \/ \E i \in 1..Len(recordings) :
          /\ ~isRecording
          /\ NoPlayYet
          /\ playBackRecording(recordings[i])
    \/ \E call \in BagToSet(pendingPlays) : ResumePlay(call)
    \/ TransportAdvance
    \/ \E p \in 1..Len(parts) : PartCallback(p)
    \/ \E c \in cleanups : CleanupCallback(c)

SpecSwap == Init /\ [][NextSwap]_vars

\* The effects panel: slider moves in every interleaving with the audio
\* start-up, live hits spawning further initAudio calls.
FxValues == {0, 50}
FxInputs == {[note |-> 36, velocity |-> 100 * VelUnit]}

NextFx ==
    \/ ToneStarted
    \/ InitAudioStarted
    \/ InitAudioDone
    \/ \E e \in FxInputs : MidiMessage(e)
    \/ \E v \in FxValues : setReverbAmt(v)
    \/ \E v \in FxValues : setDistAmt(v)
    \/ \E v \in FxValues : setMasterVol(v)
    \/ \E v \in FxValues : setSwing(v)

SpecFx == Init /\ [][NextFx]_vars

\* Takes against the step sequencer and the metronome: single-hit takes are
\* recorded, then played, stopped and deleted while the step loop is
\* started and stopped, the grid edited and the metronome toggled.
MixCells == {<< 1, 0 >>}

NextMix ==
    \/ NoPlayYet /\ isRecording /\ currentRecordingRef = << >> /\ Tick
    \/ /\ NoPlayYet
       /\ Len(recordings) + (IF isRecording THEN 0 ELSE 1) <= PlayTakes
       /\ toggleRecording
    \/ \E e \in PlayInputs :
          /\ NoPlayYet
          /\ isRecording
          /\ currentRecordingRef = << >>
          /\ MidiMessage(e)
    \/ \E i \in 1..Len(recordings) :
          /\ ~isRecording
          /\ pendingPlays = EmptyBag
          /\ playBackRecording(recordings[i])
    \/ \E call \in BagToSet(pendingPlays) : ResumePlay(call)
    \/ \E i \in 1..Len(recordings) :
          parts # << >> /\ deleteRecording(recordings[i].id)
    \/ TransportAdvance
    \/ \E p \in 1..Len(parts) : PartCallback(p)
    \/ \E c \in cleanups : CleanupCallback(c)
    \/ parts # << >> /\ ToggleSeqPlaying
    \/ \E cell \in MixCells : parts # << >> /\ toggleStep(cell[1], cell[2])
    \/ ctxRunning /\ loopStep < MaxLoopSteps /\ LoopCallback
    \/ parts # << >> /\ metroPending = 0 /\ ToggleMetronome
    \/ MetronomeReady

SpecMix == Init /\ [][NextMix]_vars

\* The same under the scheduling of the page: a suspended playBackRecording
\* call resumes when its promise settles, and while the transport runs its
\* clock advances and its due callbacks are called.
FairMix ==
    /\ SpecMix
    /\ WF_vars(\E call \in BagToSet(pendingPlays) : ResumePlay(call))
    /\ WF_vars(TransportAdvance)
    /\ WF_vars(\E p \in 1..Len(parts) : PartCallback(p))
    /\ WF_vars(\E c \in cleanups : CleanupCallback(c))

\* Row pan sliders in every interleaving with the audio start-up.  A row's
\* key is its instrument (updateRow) or one of the default rows' keys.
RowKeys == InstrumentType \ {"custom"}
PanKeys == {"kick", "tom", "conga_high"}
PanValues == {-50, 50}

NextPan ==
    \/ ToneStarted
    \/ InitAudioStarted
    \/ InitAudioDone
    \/ \E key \in PanKeys, v \in PanValues : handlePanChange(key, v)

SpecPan == Init /\ [][NextPan]_vars

\* The input layer: messages of several statuses and velocities on a mapped
\* and on an unmapped pad, around listener re-registration, the recorder
\* and the audio start-up.
MidiMessages ==
    {[command |-> c, note |-> 36, velocity |-> v] :
        c \in {128, 143, 144, 159, 160, 176}, v \in {0, 100}}

NextMidi ==
    \/ \E m \in MidiMessages : onmidimessage(m)
    \/ ToggleShowDebug
    \/ recordings = << >> /\ toggleRecording
    \/ \E t \in PresetTables : loadKit(t)
    \/ ToneStarted
    \/ InitAudioStarted
    \/ InitAudioDone

SpecMidi == Init /\ [][NextMidi]_vars

\* ------------------------------------------------------------------ claims
\* C1: a play call made while a timeline is registered for the take's id
\* disposes and removes that timeline and starts nothing (no new part, no
\* suspended call); a play call made when none is registered, the audio
\* being up, registers a new undisposed timeline for the id.
C1_PlayIsToggle ==
    [][\A i \in 1..Len(recordings) :
         LET rec == recordings[i]
         IN  playBackRecording(rec) =>
               IF rec.id \in DOMAIN activeRecordingLoops
                  THEN /\ rec.id \notin DOMAIN activeRecordingLoops'
                       /\ parts'[activeRecordingLoops[rec.id]].disposed = 1
                       /\ Len(parts') = Len(parts)
                       /\ pendingPlays' = pendingPlays
                       /\ cleanups' = cleanups
                  ELSE (ctxRunning /\ isInitialized) =>
                       /\ Len(parts') = Len(parts) + 1
                       /\ rec.id \in DOMAIN activeRecordingLoops'
                       /\ activeRecordingLoops'[rec.id] = Len(parts')
                       /\ parts'[Len(parts')].disposed = 0 ]_vars

\* Three play calls on one take before the transport moved: the first
\* timeline is disposed, a second one is registered for the same id.
C1_Witness ==
    /\ Len(parts) = 2
    /\ parts[1].id = parts[2].id
    /\ parts[1].disposed = 1
    /\ parts[2].disposed = 0
    /\ parts[2].id \in DOMAIN activeRecordingLoops
    /\ activeRecordingLoops[parts[2].id] = 2
    /\ seconds = 0
    /\ Cardinality(cleanups) = 2

\* C2: every undisposed timeline is the one registered for its take id (so
\* there is at most one per id), and every registered timeline is undisposed.
C2_OneTimelinePerTake ==
    /\ \A p \in 1..Len(parts) :
          parts[p].disposed = 0 =>
             /\ parts[p].id \in DOMAIN activeRecordingLoops
             /\ activeRecordingLoops[parts[p].id] = p
    /\ \A id \in DOMAIN activeRecordingLoops :
          /\ activeRecordingLoops[id] \in 1..Len(parts)
          /\ parts[activeRecordingLoops[id]].id = id
          /\ parts[activeRecordingLoops[id]].disposed = 0

\* Two play calls overlapped while awaiting the audio start-up: one has
\* resumed and registered its timeline, the other is still suspended.
C2_Witness ==
    /\ BagCardinality(pendingPlays) = 1
    /\ Len(parts) = 1
    /\ parts[1].disposed = 0
    /\ \A call \in BagToSet(pendingPlays) : call.rec.id = parts[1].id

\* C3: a cleanup callback that runs disposes and removes the timeline it was
\* registered with only if that very timeline is still the one registered
\* for the take id; otherwise it changes no timeline and no registration.
C3_CleanupOnlyOwnTimeline ==
    [][\A c \in cleanups :
         c \notin cleanups' =>
            IF c.id \in DOMAIN activeRecordingLoops
               /\ activeRecordingLoops[c.id] = c.part
               THEN /\ parts' = [parts EXCEPT ![c.part].disposed = 1]
                    /\ c.id \notin DOMAIN activeRecordingLoops'
               ELSE /\ parts' = parts
                    /\ activeRecordingLoops' = activeRecordingLoops ]_vars

\* Playback was stopped and restarted, then the first timeline's cleanup ran:
\* the second timeline is still registered and undisposed.
C3_Witness ==
    /\ Len(parts) = 2
    /\ parts[1].id = parts[2].id
    /\ parts[1].disposed = 1
    /\ \A c \in cleanups : c.part # 1
    /\ parts[2].disposed = 0
    /\ parts[2].id \in DOMAIN activeRecordingLoops
    /\ activeRecordingLoops[parts[2].id] = 2

\* C4 as stated: no timeline is registered for the id of a take that has
\* been deleted, that is, every registered timeline belongs to a take that
\* is still in the take list.
C4_DeleteCancelsPlayback ==
    \A id \in DOMAIN activeRecordingLoops :
        \E i \in 1..Len(recordings) : recordings[i].id = id

\* C5 as stated: a timeline that has run through all its events has issued
\* exactly one dispatcher trigger per recorded event, in recorded order, each
\* carrying the recorded note and velocity and scheduled at the anchor plus
\* the event's timestamp.
C5_ReplayEveryEvent ==
    \A p \in 1..Len(parts) :
        parts[p].next > Len(parts[p].events) =>
           /\ Len(parts[p].trig) = Len(parts[p].events)
           /\ \A k \in 1..Len(parts[p].events) :
                 /\ parts[p].trig[k].triggerNote = parts[p].events[k].note
                 /\ parts[p].trig[k].velocity = parts[p].events[k].velocity
                 /\ parts[p].trig[k].time =
                        parts[p].anchor + parts[p].events[k].timestamp

\* C6: start() moves the recorder from idle to recording and empties the
\* buffer without touching the take list; stop() with a non-empty buffer
\* puts exactly one new take in front of the list, its events the buffer in
\* arrival order and its duration stop time minus start time; stop() with an
\* empty buffer leaves the list unchanged.
C6_RecorderSealing ==
    [][ /\ (~isRecording /\ isRecording') =>
              /\ currentRecordingRef' = << >>
              /\ recordStartTimeRef' = now
              /\ recordings' = recordings
        /\ (isRecording /\ ~isRecording' /\ currentRecordingRef # << >>) =>
              /\ Len(recordings') = Len(recordings) + 1
              /\ SubSeq(recordings', 2, Len(recordings')) = recordings
              /\ recordings'[1].events = currentRecordingRef
              /\ recordings'[1].duration = now - recordStartTimeRef
        /\ (isRecording /\ ~isRecording' /\ currentRecordingRef = << >>) =>
              recordings' = recordings ]_vars

\* Two takes sealed at different times, the later one first, holding two
\* different events in arrival order.
C6_Witness ==
    /\ Len(recordings) = 2
    /\ recordings[1].id > recordings[2].id
    /\ Len(recordings[1].events) = 2
    /\ recordings[1].events[1].note # recordings[1].events[2].note
    /\ recordings[1].duration > 0

\* C7: every take's event timestamps are non-negative and non-decreasing and
\* its duration is at least the timestamp of its last event.
C7_DurationCoversEvents ==
    \A i \in 1..Len(recordings) :
        LET ev == recordings[i].events
        IN  /\ \A k \in 1..Len(ev) : ev[k].timestamp >= 0
            /\ \A k \in 1..(Len(ev) - 1) : ev[k].timestamp <= ev[k + 1].timestamp
            /\ Len(ev) > 0 => recordings[i].duration >= ev[Len(ev)].timestamp

\* A take whose last event arrived in the stop's own millisecond, after an
\* earlier event.
C7_Witness ==
    \E i \in 1..Len(recordings) :
        LET ev == recordings[i].events
        IN  /\ Len(ev) = 2
            /\ ev[1].timestamp < ev[2].timestamp
            /\ recordings[i].duration = ev[2].timestamp

C10_MappingPersistence ==
    [][ /\ \A n \in EditPads, i \in EditInstruments, p \in EditPitches :
              updateMapping(n, i, p) =>
                 /\ n \in DOMAIN mappings'
                 /\ mappings'[n].instrument = i
                 /\ mappings'[n].pitch = p
        /\ mappings' # mappings =>
              \/ \E n \in EditPads, i \in EditInstruments, p \in EditPitches :
                    updateMapping(n, i, p)
              \/ \E t \in PresetTables : loadKit(t)
        /\ \A e \in Inputs :
              (MidiMessage(e) /\ e.note \in DOMAIN mappings) =>
                 /\ Len(out') = 1
                 /\ out'[1].type = mappings[e.note].instrument
                 /\ out'[1].pitch = mappings[e.note].pitch
        /\ \A q \in 1..Len(parts) :
              (PartCallback(q)
                 /\ parts[q].events[parts[q].next].note \in DOMAIN mappings) =>
                 /\ Len(out') = 1
                 /\ out'[1].type = mappings[parts[q].events[parts[q].next].note].instrument
                 /\ out'[1].pitch = mappings[parts[q].events[parts[q].next].note].pitch
      ]_vars

\* A take replays pad 36 after the pad was mapped to the snare at +2: the
\* playback trigger is the snare at +2.
C10_Witness ==
    /\ 36 \in DOMAIN mappings
    /\ mappings[36].instrument = "snare"
    /\ mappings[36].pitch = 2
    /\ out # << >>
    /\ out[1].src = "part"
    /\ out[1].triggerNote = 36
    /\ out[1].type = "snare"
    /\ out[1].pitch = 2

\* C11 as stated: a live hit on a pad that has no mapping triggers the
\* cowbell at +12 semitones (no trigger note, so no registry entry is
\* consulted), the call does not throw and it reaches a voice, whatever the
\* engine state.
C11_FallbackReachesVoice ==
    [][\A e \in Inputs :
         (MidiMessage(e) /\ e.note \notin DOMAIN mappingsRef) =>
            /\ Len(out') = Len(listenersRef)
            /\ \A k \in 1..Len(out') :
                  /\ out'[k].type = "cowbell"
                  /\ out'[k].pitch = 12
                  /\ out'[k].result = "voice" ]_vars

\* C16 as stated: no call of the dispatcher throws.
C16_DispatcherNeverThrows ==
    \A k \in 1..Len(out) : out[k].result # "throws"

\* C17 as stated: the effects chain and the voices have been constructed at
\* most once, however many initAudio calls were made.
C17_InitOnce ==
    /\ graphs <= 1
    /\ voiceBuilds <= 1

\* C12 as stated: every entry of the mapping table has an instrument that
\* is a member of InstrumentType.
C12_MappedInstrumentsValid ==
    \A n \in DOMAIN mappings : mappings[n].instrument \in InstrumentType

\* C13 as stated: once every load issued for a pad has completed, the only
\* undisposed player created for the pad is the one registered for it, and
\* a registered player is undisposed.
C13_OneResourcePerPad ==
    \A p \in LoadPads :
        (\A i \in 1..Len(loads) : loads[i].pad # p) =>
           /\ \A k \in 1..Len(players) :
                 (players[k].pad = p /\ players[k].disposed = 0) =>
                    (p \in DOMAIN customPlayers /\ customPlayers[p] = k)
           /\ p \in DOMAIN customPlayers =>
                 players[customPlayers[p]].disposed = 0

\* C14 as stated: no pad is in both registries.
C14_OneRegistryPerPad ==
    DOMAIN customPlayers \cap DOMAIN customMidi = {}

\* C15 as stated: when a load of a metadata-only file returns, and when a
\* load whose fetch or decode failed returns, the pad has no entry in either
\* registry (so that a custom trigger of the pad is silent).
C15_FailedLoadLeavesNoEntry ==
    [][/\ \A n \in LoadPads, a \in Assets :
            (loadUserSample(n, a) /\ a.ext = "prt_omn") =>
               (n \notin DOMAIN customPlayers' /\ n \notin DOMAIN customMidi')
       /\ \A i \in 1..Len(loads) :
            LoadFails(i) =>
               /\ loads[i].pad \notin DOMAIN customPlayers'
               /\ loads[i].pad \notin DOMAIN customMidi'
      ]_vars

\* C18: stopAllRecordings disposes every timeline registered in
\* activeRecordingLoops and empties the map; with the map already empty it
\* changes no timeline; and a timeline that has been disposed stays disposed
\* and makes no further dispatcher call.
C18_StopAllSilences ==
    [][/\ stopAllRecordings =>
            /\ \A id \in DOMAIN activeRecordingLoops :
                  parts'[activeRecordingLoops[id]].disposed >= 1
            /\ activeRecordingLoops' = EmptyMap
            /\ activeRecordingLoops = EmptyMap => parts' = parts
       /\ \A p \in 1..Len(parts) :
            parts[p].disposed >= 1 =>
               /\ parts'[p].disposed >= 1
               /\ parts'[p].trig = parts[p].trig
      ]_vars

\* A take on a mapped pad was started and stopped with Stop All before its
\* hit was due; the transport has since passed the hit's time, the part's
\* own cleanup has not run yet, and the part has made no dispatcher call.
C18_Witness ==
    /\ activeRecordingLoops = EmptyMap
    /\ \E p \in 1..Len(parts) :
          /\ parts[p].disposed = 1
          /\ parts[p].next = 1
          /\ parts[p].trig = << >>
          /\ parts[p].events[1].note \in DOMAIN mappingsRef
          /\ parts[p].anchor + parts[p].events[1].timestamp <= seconds
          /\ \E c \in cleanups : c.part = p

\* C19 as stated: at every step the loop plays, each row whose cell is
\* active at that step is triggered exactly once with the row's instrument
\* and pitch, and each row whose cell is inactive is not triggered.
C19_GridFidelity ==
    [][LoopCallback =>
         \A r \in 1..Len(DEFAULT_ROWS) :
            Cardinality({k \in 1..Len(out') :
                            /\ out'[k].type = DEFAULT_ROWS[r].instrument
                            /\ out'[k].pitch = DEFAULT_ROWS[r].pitch})
               = IF << r, loopStep >> \in seqGrid THEN 1 ELSE 0 ]_vars

\* C20: a tempo change made while the loop is playing leaves the transport's
\* state and position, the loop's identity and its step alone and sets the
\* transport's bpm to the new tempo; every tick schedules the next one a
\* sixteenth note away at the tempo last set.
C20_TempoChangeKeepsLoop ==
    [][/\ \A t \in Tempos :
            (setTempo(t) /\ seqIsPlaying) =>
               /\ transportState' = transportState
               /\ seconds' = seconds
               /\ seqIsPlaying'
               /\ loopId' = loopId
               /\ loopStep' = loopStep
               /\ bpm' = t
       /\ LoopCallback => tickInterval' = SixteenthPerBpm \div tempo
      ]_vars

\* The tempo was changed in the middle of a cycle: the loop is playing, it
\* is past its first step, and its last tick was still scheduled at the
\* previous tempo.
C20_Witness ==
    /\ seqIsPlaying
    /\ transportState = "started"
    /\ loopStep > 0
    /\ tempo # DefaultTempo
    /\ bpm = tempo
    /\ tickInterval # SixteenthPerBpm \div tempo

\* C23 as stated: the normalised velocity of every dispatcher call lies in
\* [0, 1]; a velocity above 1 is normalised to velocity / 127 clamped into
\* [0.1, 1]; and no smaller integer velocity of 0..127 is normalised to more
\* than the call's velocity is.
C23_VelocityNormalised ==
    \A k \in 1..Len(out) :
        LET c == out[k]
        IN  /\ c.vel \in 0..VelUnit
            /\ c.velocity > VelUnit =>
                  /\ c.vel >= VelFloor
                  /\ c.vel = VelUnit \/ c.vel = VelFloor
                        \/ c.vel = c.velocity \div MidiScale
            /\ \A v \in 0..MidiScale :
                  v * VelUnit <= c.velocity =>
                     NormVelocity(v * VelUnit) <= c.vel

C22_NoParameterBleed ==
    [][\A x \in SampleVoices :
         ( /\ kit[x].by # "none"
           /\ kit'[x].by = kit[x].by
           /\ \E k \in 1..Len(out') :
                 out'[k].type = x /\ out'[k].src # kit[x].by
           /\ (\E e \in VoiceInputs : MidiMessage(e))
                 \/ (\E p \in 1..Len(parts) : PartCallback(p)) )
         => /\ kit'[x].rate = kit[x].rate
            /\ kit'[x].gain = kit[x].gain ]_vars

\* C28: a dispatcher call for a kit instrument whose player has a playback
\* started stops the player and then starts it, in that order, so that no
\* player ever has more than one playback started; and with the kit built
\* no such call throws, a start that raises included.
C28_RetriggerStopsFirst ==
    [][\A x \in SampleVoices :
         ( /\ isInitialized
           /\ \E k \in 1..Len(out') : out'[k].type = x
           /\ (\E e \in VoiceInputs : MidiMessage(e))
                 \/ (\E p \in 1..Len(parts) : PartCallback(p)) )
         => /\ kit[x].n > 0 => kit'[x].ops = << "stop", "start" >>
            /\ kit'[x].n <= 1
            /\ \A k \in 1..Len(out') :
                  out'[k].type = x => out'[k].result # "throws" ]_vars

\* The kick was struck while its player had a playback started and the
\* start raised: the player was stopped, then the start was attempted, and
\* the call returned without a voice.
C28_Witness ==
    /\ out # << >>
    /\ out[1].type = "kick"
    /\ out[1].result = "silent"
    /\ kit["kick"].ops = << "stop", "start" >>
    /\ kit["kick"].n = 0

\* C26 as stated: every dispatcher call the step loop's callback makes for
\* an active cell carries a scheduled time, the tick's, and not an absent
\* one.
C26_LoopTriggersAtTickTime ==
    [][LoopCallback =>
         \A k \in 1..Len(out') : /\ out'[k].src = "loop"
                                  /\ out'[k].time # UndefinedNum]_vars

\* C27: starting the step loop starts the transport and stopping it stops
\* the transport; and whenever the loop is stopped after a step the step
\* pointer is 0, so it is 0 from the stop until the next start.
C27_StopResetsPointer ==
    [][/\ (~seqIsPlaying /\ seqIsPlaying') => transportState' = "started"
       /\ (seqIsPlaying /\ ~seqIsPlaying') =>
             transportState' = "stopped" /\ currentStep' = 0
       /\ ~seqIsPlaying' => currentStep' = 0]_vars

\* The loop ran, its callback having fired, and was stopped.
C27_Witness ==
    /\ ~seqIsPlaying
    /\ tickInterval # 0
    /\ kit["kick"].n = 1
    /\ transportState = "stopped"
    /\ currentStep = 0

C30_BusHoldsLastRequest ==
    (isInitialized /\ initAtStart = 0 /\ initAtReverb = 0)
    => /\ bus.reverb = Clamp01(fx.reverb)
       /\ bus.distortion = Clamp01(fx.distortion)
       /\ bus.volume = fx.volume
       /\ bus.swing = fx.swing
       /\ UpdateEffects(bus, BusParams(fx)) = bus
       /\ UpdateEffects(bus, SwingParams(fx)) = bus

\* C21 as stated: while a take's timeline is registered and the transport
\* runs, stopping the step loop, editing the grid with the loop stopped and
\* toggling the metronome leave the transport running at its position and
\* the take's part, registration and cleanup as they are; and stopping or
\* deleting one take leaves every other take's registration and part as
\* they are.
C21_TimelinesIndependent ==
    [][/\ ( /\ activeRecordingLoops # EmptyMap
            /\ transportState = "started"
            /\ \/ seqIsPlaying /\ ToggleSeqPlaying
               \/ \E cell \in MixCells :
                     ~seqIsPlaying /\ toggleStep(cell[1], cell[2])
               \/ ToggleMetronome
               \/ MetronomeReady )
          => /\ transportState' = "started"
             /\ seconds' = seconds
             /\ UNCHANGED playVars
       /\ \A i \in 1..Len(recordings) :
            ( \/ deleteRecording(recordings[i].id)
              \/ /\ recordings[i].id \in DOMAIN activeRecordingLoops
                 /\ playBackRecording(recordings[i]) )
            => \A o \in DOMAIN activeRecordingLoops \ {recordings[i].id} :
                 /\ o \in DOMAIN activeRecordingLoops'
                 /\ activeRecordingLoops'[o] = activeRecordingLoops[o]
                 /\ parts'[activeRecordingLoops[o]] =
                       parts[activeRecordingLoops[o]] ]_vars

\* C25 as stated: every timeline play registers is eventually removed from
\* the active set.
C25_TimelineEventuallyRemoved ==
    \A id \in 0..(MaxNow + 1) :
        (id \in DOMAIN activeRecordingLoops)
            ~> (id \notin DOMAIN activeRecordingLoops)

\* C31 as stated: no timeline is disposed more than once, and a stop, a
\* stopAll or a delete for a take id without an active timeline changes
\* neither the active set nor any timeline.  The only stop request for one
\* take is the play button.
C31_StopWithoutTimelineIsNoOp ==
    [][/\ \A p \in 1..Len(parts') : parts'[p].disposed <= 1
       /\ \A i \in 1..Len(recordings) :
            ( /\ recordings[i].id \notin DOMAIN activeRecordingLoops
              /\ \/ playBackRecording(recordings[i])
                 \/ deleteRecording(recordings[i].id) )
            => UNCHANGED << parts, activeRecordingLoops >>
       /\ (activeRecordingLoops = EmptyMap /\ stopAllRecordings)
            => UNCHANGED << parts, activeRecordingLoops >> ]_vars

\* C31: no timeline is disposed more than once; a stopAll with no active
\* timeline, a delete of a take without an active timeline and a cleanup
\* callback whose timeline is no longer the registered one change neither
\* the active set nor any timeline; a press of the play button of a take
\* without an active timeline disposes nothing.
C31_CancellationIdempotent ==
    [][/\ \A p \in 1..Len(parts') : parts'[p].disposed <= 1
       /\ \A i \in 1..Len(recordings) :
            recordings[i].id \notin DOMAIN activeRecordingLoops
            => /\ deleteRecording(recordings[i].id)
                    => UNCHANGED << parts, activeRecordingLoops >>
               /\ playBackRecording(recordings[i])
                    => \A p \in 1..Len(parts) : parts'[p] = parts[p]
       /\ (activeRecordingLoops = EmptyMap /\ stopAllRecordings)
            => UNCHANGED << parts, activeRecordingLoops >>
       /\ \A c \in cleanups :
            ( /\ CleanupCallback(c)
              /\ ~( /\ c.id \in DOMAIN activeRecordingLoops
                    /\ activeRecordingLoops[c.id] = c.part ) )
            => UNCHANGED << parts, activeRecordingLoops >> ]_vars

\* A take was played and stopped with its button, and its cleanup callback
\* ran afterwards: the timeline is disposed once and nothing is registered.
C31_Witness ==
    /\ Len(parts) = 1
    /\ parts[1].disposed = 1
    /\ activeRecordingLoops = EmptyMap
    /\ cleanups = {}
    /\ recordings # << >>

C33_EveryVoiceHasPanStage ==
    [][\A key \in PanKeys, v \in PanValues :
         (isInitialized /\ key \in RowKeys /\ handlePanChange(key, v))
         => /\ key \in DOMAIN panners'
            /\ panners'[key] = v ]_vars

\* C34: a Note On (status 144..159) with a velocity above 0 makes the drum
\* kit issue exactly one dispatcher call, for that note and velocity; any
\* other message issues none and changes neither the kit nor the recorder's
\* buffer; and however often the listener was registered anew, the one
\* callback called is the one registered last.
C34_OneTriggerPerNoteOn ==
    [][/\ \A m \in MidiMessages :
            onmidimessage(m) =>
               IF m.command \in 144..159 /\ m.velocity > 0
                  THEN /\ Len(out') = 1
                       /\ out'[1].src = "live"
                       /\ out'[1].velocity = m.velocity * VelUnit
                       /\ Len(currentRecordingRef') =
                            Len(currentRecordingRef)
                               + (IF isRecordingRef THEN 1 ELSE 0)
                  ELSE /\ out' = << >>
                       /\ UNCHANGED << kit, currentRecordingRef, initAtStart >>
       /\ listenersRef' = << nextListener' - 1 >> ]_vars

\* The listener was registered anew and a Note On then arrived while the
\* recorder ran: one call, one recorded event.
C34_Witness ==
    /\ listenersRef = << 2 >>
    /\ Len(out) = 1
    /\ out[1].src = "live"
    /\ out[1].velocity = 100 * VelUnit
    /\ isRecording
    /\ Len(currentRecordingRef) = 1

\* --------------------------------------------------- sequencer grid shape
\* The active cells after the grid row at index was filtered out.
CellsWithout(cells, index) ==
    {<< IF c[1] > index THEN c[1] - 1 ELSE c[1], c[2] >> :
        c \in {x \in cells : x[1] # index}}

\* Every handler below replaces seqState, so the Tone.Sequence effect
\* (dependencies seqState and isPlaying) runs again.
SeqStateChanged ==
    /\ LoopEffect(seqIsPlaying)
    /\ loopId' = 1 - loopId
    /\ currentStep' = StepPointerAfter(seqIsPlaying, currentStep)
    /\ out' = << >>
    /\ UNCHANGED << now, recorderVars, mappingVars, listenerVars, audioVars,
                    playVars, seqIsPlaying, loopStep, engineVars,
                    registryVars, tempo, bpm, tickInterval, kit, fxVars,
                    metroVars,
                    pickerVars >>

clearGrid ==
    /\ seqGrid' = {}
    /\ gridLens' = [r \in 1..Len(seqRows) |-> STEPS]
    /\ UNCHANGED seqRows
    /\ SeqStateChanged

\* The row addTrack appends; its id and name take no part in playback.
NewRow == [instrument |-> "kick", pitch |-> UndefinedNum, key |-> "kick"]

addTrack ==
    /\ seqRows' = Append(seqRows, NewRow)
    /\ gridLens' = Append(gridLens, STEPS)
    /\ UNCHANGED seqGrid
    /\ SeqStateChanged

deleteTrackRowsOnly(index, confirmed) ==
    IF confirmed
       THEN /\ seqRows' = RemoveAt(seqRows, index)
            /\ UNCHANGED << seqGrid, gridLens >>
            /\ SeqStateChanged
       ELSE /\ out' = << >>
            /\ UNCHANGED << now, recorderVars, mappingVars, listenerVars,
                            audioVars, playVars, transportVars, seqVars,
                            engineVars, registryVars, tempoVars, mixVars >>

\* The row's delete button; confirmed is the answer window.confirm returns.
deleteTrack(index, confirmed) ==
    IF confirmed
       THEN /\ seqRows' = RemoveAt(seqRows, index)
            /\ gridLens' = RemoveAt(gridLens, index)
            /\ seqGrid' = CellsWithout(seqGrid, index)
            /\ SeqStateChanged
       ELSE /\ out' = << >>
            /\ UNCHANGED << now, recorderVars, mappingVars, listenerVars,
                            audioVars, playVars, transportVars, seqVars,
                            engineVars, registryVars, tempoVars, mixVars >>

\* updateRow(index, {[field]: val}); a new instrument also becomes the key.
updateRow(index, field, val) ==
    /\ seqRows' = [seqRows EXCEPT ![index] =
                     IF field = "instrument"
                        THEN [@ EXCEPT !.instrument = val, !.key = val]
                        ELSE [@ EXCEPT ![field] = val]]
    /\ UNCHANGED << seqGrid, gridLens >>
    /\ SeqStateChanged

\* Tracks, cells and row edits the grid editor is exercised with.
GridTracks == {1, 2}
GridCells == {<< 1, 0 >>, << 2, 0 >>}
RowUpdates == {<< "instrument", "snare" >>, << "pitch", 2 >>}

\* One track is added to the default rows and one of the first two deleted
\* after it; cells are set, cleared and played throughout.
NextGrid ==
    \/ ToggleSeqPlaying
    \/ \E cell \in GridCells : toggleStep(cell[1], cell[2])
    \/ seqGrid # {} /\ clearGrid
    \/ Len(seqRows) = Len(DEFAULT_ROWS) /\ seqRows[Len(seqRows)] # NewRow
                                        /\ addTrack
    \/ \E index \in GridTracks, confirmed \in BOOLEAN :
          /\ Len(seqRows) > Len(DEFAULT_ROWS)
          /\ deleteTrack(index, confirmed)
    \/ \E index \in GridTracks, u \in RowUpdates :
          /\ seqRows[index] = DEFAULT_ROWS[index]
          /\ updateRow(index, u[1], u[2])
    \/ loopStep < MaxLoopSteps /\ LoopCallback

SpecGrid == Init /\ [][NextGrid]_vars

GridShapeOk ==
    /\ Len(seqRows) = Len(gridLens)
    /\ \A r \in 1..Len(gridLens) : gridLens[r] = STEPS
    /\ seqGrid \subseteq (1..Len(gridLens)) \X (0..(STEPS - 1))

\* C35: after any of toggleStep, clearGrid, addTrack, deleteTrack and
\* updateRow the grid has as many rows as the row list and every grid row is
\* STEPS cells wide, so the loop callback's grid[rowIndex][step] always
\* exists; toggleStep flips the addressed cell and no other.
C35_GridInvariant ==
    /\ GridShapeOk
    /\ [][ /\ GridShapeOk'
           /\ \A cell \in GridCells :
                 toggleStep(cell[1], cell[2]) =>
                    /\ (cell \in seqGrid') = (cell \notin seqGrid)
                    /\ seqGrid' \ {cell} = seqGrid \ {cell}
                    /\ seqRows' = seqRows ]_vars

\* A track was added, another deleted, a row edited and a cell set.
C35_Witness ==
    /\ Len(seqRows) = Len(DEFAULT_ROWS)
    /\ seqRows[Len(seqRows)] = NewRow
    /\ seqRows[1] = [DEFAULT_ROWS[1] EXCEPT !.pitch = 2]
    /\ seqRows[2] = DEFAULT_ROWS[3]
    /\ seqGrid = {<< 2, 0 >>}

\* ------------------------------------------------------ metronome loops
\* A then whose initAudio() has resolved runs as a microtask, before the
\* next click on the metronome button.
NextMetro ==
    \/ ToneStarted
    \/ InitAudioStarted
    \/ InitAudioDone
    \/ ~(metroPending > 0 /\ isInitialized) /\ ToggleMetronome
    \/ MetronomeReady
    \/ ToggleSeqPlaying
    \/ loopStep < MaxLoopSteps /\ LoopCallback

SpecMetro == Init /\ [][NextMetro]_vars

\* C37: once the metronome switch is off and no loop creation is pending,
\* no metronome loop is running and the ref holds none.
C37_NoLoopWhenOff ==
    (~isMetronomeOn /\ metroPending = 0) =>
        (metroLoops = 0 /\ ~metronomeLoop)

\* ------------------------------------------------------- overlapping loads
\* The audio files among the assets.
AudioAssets == {a \in Assets : a.ext \notin {"mid", "prt_omn"}}

\* Audio loads for one pad in every interleaving with their completions and
\* the audio start-up.
NextLast ==
    \/ ToneStarted
    \/ InitAudioStarted
    \/ InitAudioDone
    \/ \E n \in LoadPads, a \in AudioAssets : loadUserSample(n, a)
    \/ \E i \in 1..Len(loads) : LoadSucceeds(i)
    \/ \E i \in 1..Len(loads) : LoadFails(i)

SpecLast == Init /\ [][NextLast]_vars

\* The player the most recently issued audio load for the pad created.
LastPlayer(n) ==
    CHOOSE k \in 1..Len(players) :
        /\ players[k].pad = n
        /\ \A j \in (k + 1)..Len(players) : players[j].pad # n

\* C38: once no load for a pad is in flight and the most recently issued
\* one has succeeded, the pad's registry entry is the player of that call.
C38_LastLoadWins ==
    \A n \in LoadPads :
        (/\ \A i \in 1..Len(loads) : loads[i].pad # n
         /\ \E k \in 1..Len(players) : players[k].pad = n
         /\ players[LastPlayer(n)].loaded)
            => /\ n \in DOMAIN customPlayers
               /\ customPlayers[n] = LastPlayer(n)

\* ------------------------------------------------------- the upload control
\* URL.createObjectURL(file): a blob: URL, which carries neither the name's
\* extension nor any other.
ObjectUrl(file) == [name |-> file.name, ext |-> ""]

\* Files picked in the editor's Local File input.
UploadFiles == {[name |-> "take", ext |-> "wav"]}

\* handleFileUpload(e) for the pad selected in the editor.
handleFileUpload(note, file) == loadUserSample(note, ObjectUrl(file))

\* Samples given to a pad through the library and through the upload
\* control, their completions, and pad hits.
NextUpload ==
    \/ ToneStarted
    \/ InitAudioStarted
    \/ InitAudioDone
    \/ \E n \in EditPads, f \in UploadFiles : handleFileUpload(n, f)
    \/ \E n \in EditPads, item \in {x \in LibraryItems : ~x.std} :
          handleLibraryLoad(n, item)
    \/ \E i \in 1..Len(loads) : LoadSucceeds(i)
    \/ \E i \in 1..Len(loads) : LoadFails(i)
    \/ \E e \in Inputs : MidiMessage(e)

SpecUpload == Init /\ [][NextUpload]_vars

\* C39: a pad that has a sample in the registry is mapped to 'custom'.
C39_LoadedPadIsCustom ==
    \A n \in DOMAIN customPlayers :
        players[customPlayers[n]].loaded =>
            /\ n \in DOMAIN mappings
            /\ mappings[n].instrument = "custom"

\* --------------------------------------------------- sound picker previews
\* Library entries previewed: MIDI patterns and an Omnisphere patch.  Audio
\* files and built-in voices are previewed through activePlayer and a
\* triggerSound call, which share nothing with the MIDI preview but
\* playingPath.
PreviewSamples ==
    { [path |-> "groove.mid", ext |-> "mid"],
      [path |-> "fill.mid", ext |-> "mid"],
      [path |-> "patch.prt_omn", ext |-> "prt_omn"] }

\* The synths after stopPreview's activeMidiSynth.current.dispose().
StoppedSynths ==
    IF activeMidiSynth # 0
       THEN [synths EXCEPT ![activeMidiSynth] = @ + 1]
       ELSE synths

\* stopPreview()
stopPreview ==
    /\ synths' = StoppedSynths
    /\ activeMidiSynth' = 0
    /\ playingPath' = NoPath

\* The timer's test 'playingPath === sample.path' on the playingPath of the
\* render the preview was started from.
TimerSees(call) == call.seen = call.path

PickerFrame ==
    /\ out' = << >>
    /\ UNCHANGED << now, recorderVars, mappingVars, listenerVars, audioVars,
                    playVars, transportVars, seqVars, engineVars,
                    registryVars, tempoVars, kit, fxVars, currentStep,
                    metroVars >>

\* The preview button of a library entry, up to the first await.
playPreview(sample) ==
    /\ sample.ext = "mid" =>
           Len(previews) < MaxPreviews /\ Len(synths) < MaxPreviews
    /\ IF playingPath = sample.path \/ sample.ext = "prt_omn"
          THEN /\ stopPreview
               /\ UNCHANGED previews
          ELSE /\ synths' = StoppedSynths
               /\ activeMidiSynth' = 0
               /\ playingPath' = sample.path
               /\ previews' = Append(previews,
                                     [path |-> sample.path,
                                      seen |-> playingPath,
                                      stage |-> "fetch", synth |-> 0])
    /\ PickerFrame

\* Tone.start(), the fetch and the parse of a preview have gone through: the
\* synth is made and tracked, the notes are scheduled and the timer is set.
PreviewLoaded(i) ==
    /\ previews[i].stage = "fetch"
    /\ synths' = Append(synths, 0)
    /\ activeMidiSynth' = Len(synths')
    /\ previews' = [previews EXCEPT ![i].stage = "timer",
                                    ![i].synth = Len(synths')]
    /\ UNCHANGED playingPath
    /\ PickerFrame

\* One of them has thrown: the catch calls stopPreview().
PreviewFails(i) ==
    /\ previews[i].stage = "fetch"
    /\ stopPreview
    /\ previews' = RemoveAt(previews, i)
    /\ PickerFrame

\* The timer set for the pattern's duration plus one second fires.
PreviewTimer(i) ==
    LET call == previews[i]
    IN  /\ call.stage = "timer"
        /\ previews' = RemoveAt(previews, i)
        /\ IF TimerSees(call)
              THEN IF activeMidiSynth = call.synth
                      THEN stopPreview
                      ELSE /\ playingPath' = NoPath
                           /\ UNCHANGED << activeMidiSynth, synths >>
              ELSE UNCHANGED << playingPath, activeMidiSynth, synths >>
        /\ PickerFrame

NextPreview ==
    \/ \E sample \in PreviewSamples : playPreview(sample)
    \/ \E i \in 1..Len(previews) : PreviewLoaded(i)
    \/ \E i \in 1..Len(previews) : PreviewFails(i)
    \/ \E i \in 1..Len(previews) : PreviewTimer(i)

SpecPreview == Init /\ [][NextPreview]_vars

\* C36: when the timer of a MIDI preview fires and the preview is still the
\* one playing (the marker is its path, the tracked synth is its synth), the
\* synth is disposed and the marker cleared.
C36_PreviewCleansUp ==
    [][ \A i \in 1..Len(previews) :
           (/\ PreviewTimer(i)
            /\ playingPath = previews[i].path
            /\ activeMidiSynth = previews[i].synth)
              => /\ playingPath' = NoPath
                 /\ activeMidiSynth' = 0
                 /\ synths'[previews[i].synth] > 0 ]_vars

Next ==
    \/ Tick
    \/ toggleRecording
    \/ \E e \in Inputs : MidiMessage(e)
    \/ \E m \in MidiMessages : onmidimessage(m)
    \/ ToggleShowDebug
    \/ \E n \in EditPads, i \in EditInstruments, p \in EditPitches :
          updateMapping(n, i, p)
    \/ \E n \in EditPads, v \in EditVolumes : SetPadVolume(n, v)
    \/ \E t \in PresetTables : loadKit(t)
    \/ ToneStarted
    \/ InitAudioStarted
    \/ InitAudioDone
    \/ \E n \in LoadPads, a \in Assets : loadUserSample(n, a)
    \/ \E i \in 1..Len(loads) : LoadSucceeds(i)
    \/ \E i \in 1..Len(loads) : LoadFails(i)
    \/ \E n \in EditPads, item \in LibraryItems : handleLibraryLoad(n, item)
    \/ \E n \in EditPads, f \in UploadFiles : handleFileUpload(n, f)
    \/ \E t \in Tempos : setTempo(t)
    \/ \E i \in 1..Len(recordings) : playBackRecording(recordings[i])
    \/ \E call \in BagToSet(pendingPlays) : ResumePlay(call)
    \/ stopAllRecordings
    \/ \E i \in 1..Len(recordings) : deleteRecording(recordings[i].id)
    \/ TransportAdvance
    \/ \E p \in 1..Len(parts) : PartCallback(p)
    \/ \E c \in cleanups : CleanupCallback(c)
    \/ ToggleSeqPlaying
    \/ \E cell \in EditCells : toggleStep(cell[1], cell[2])
    \/ LoopCallback
    \/ clearGrid
    \/ addTrack
    \/ \E index \in GridTracks, confirmed \in BOOLEAN :
          deleteTrack(index, confirmed)
    \/ \E index \in GridTracks, u \in RowUpdates :
          updateRow(index, u[1], u[2])
    \/ ToggleMetronome
    \/ MetronomeReady
    \/ \E key \in PanKeys, v \in PanValues : handlePanChange(key, v)
    \/ \E sample \in PreviewSamples : playPreview(sample)
    \/ \E i \in 1..Len(previews) : PreviewLoaded(i)
    \/ \E i \in 1..Len(previews) : PreviewFails(i)
    \/ \E i \in 1..Len(previews) : PreviewTimer(i)
    \/ \E v \in FxValues : setReverbAmt(v)
    \/ \E v \in FxValues : setDistAmt(v)
    \/ \E v \in FxValues : setMasterVol(v)
    \/ \E v \in FxValues : setSwing(v)
    \/ \E x \in KitPlayers : VoiceTurns(x)
    \/ \E x \in KitPlayers : VoiceEnds(x)
    \/ \E x \in KitPlayers : PlayerFaults(x)

Spec == Init /\ [][Next]_vars
====
